---- MODULE Spec2Model ----
(***************************************************************************)
(* Model of the refresh-token authentication lifecycle of martian-todos:   *)
(* the four handlers of apps/backend/src/routes/auth.ts running            *)
(* concurrently against the users and refresh_tokens tables created by     *)
(* migration 001_initial.  Every handler is split at its awaits: one       *)
(* action per database round trip, with the synchronous code that follows  *)
(* the previous await folded into it.  A second specification,             *)
(* SpecClient, models the useAuth hook and apiFetch of the web client.      *)
(* SpecTodos models the todo routes, SpecMigrate the migration runner and  *)
(* SpecApp the optimistic list handling of the App component.              *)
(***************************************************************************)
EXTENDS Integers, Sequences, FiniteSets, TLC

(* ------------------------------ bounds --------------------------------- *)
\* Number of request slots: requests that can be in flight at the same time.
MaxRequests == 2
\* Size of the pool of raw values generateRefreshToken() draws from.
MaxTokens == 3
\* Number of times the wall clock advances in one behaviour.
MaxTicks == 1
\* Number of requests the clients send in one behaviour.
MaxCalls == 4

(* ----------------------------- constants ------------------------------- *)
\* config.JWT_REFRESH_EXPIRES_IN_DAYS (default); the clock counts days.
JWT_REFRESH_EXPIRES_IN_DAYS == 30
\* bcrypt cost factor passed to bcrypt.hash.
BCRYPT_ROUNDS == 12
\* config.NODE_ENV (default).
NODE_ENV == "development"

\* SQL NULL / JavaScript undefined.
NULL == <<>>

Requests == 1..MaxRequests
Tokens == 1..MaxTokens

\* Well-formed e-mail addresses of the model; two differ only in case.
Emails == {"alice@example.com", "Alice@Example.com", "bob@example.com"}

\* Request bodies the clients send; the last of each set fails validation.
RegisterBodies ==
    {[email |-> e, password |-> "pw123456", name |-> "Alice"] : e \in Emails}
    \cup {[email |-> "bob@example.com", password |-> "short", name |-> "Bob"]}
LoginBodies ==
    {[email |-> "alice@example.com", password |-> "pw123456"],
     [email |-> "alice@example.com", password |-> "wrong1234"],
     [email |-> "bob@example.com", password |-> "pw123456"],
     [email |-> "not-an-email", password |-> "pw123456"]}
RefreshTokenBodies == {[refreshToken |-> t] : t \in Tokens} \cup {NULL}

\* One clock advance jumps to the instant a token issued now expires, or to
\* the day after it.
ClockSteps == {JWT_REFRESH_EXPIRES_IN_DAYS, JWT_REFRESH_EXPIRES_IN_DAYS + 1}

VARIABLES
    users,           \* rows of table users
    refresh_tokens,  \* rows of table refresh_tokens
    reqs,            \* per request slot: handler, position, locals, reply
    clock,           \* wall clock read by new Date() and now()
    ticks,           \* number of clock advances so far
    calls,           \* number of requests received so far
    loggedOut        \* history: raw tokens for which /logout has replied 204

\* State of one browser tab running the useAuth hook and the API client.
VARIABLES
    accessToken,        \* useState token: the access token, or NULL
    currentUser,        \* useState user: the signed-in user, or NULL
    localStorage,       \* window.localStorage: key -> value, present keys only
    refreshPromiseRef,  \* refreshPromiseRef.current: a promise handle, or NULL
    promises,           \* the promises refreshAccessToken() has created
    fetches,            \* POST /auth/refresh requests that have not settled
    refreshCalls,       \* history: what each refreshAccessToken() call returned
    api                 \* the apiFetch() calls made so far

\* State of the todo routes (routes/todos.ts).
VARIABLES
    todos,              \* rows of table todos
    treqs,              \* per request slot: route, position, locals, reply
    todoCalls,          \* number of todo requests received so far
    todoSeq             \* number of ids the todos table has generated

\* State of the migration runner (db/migrate.ts) and of its database.
VARIABLES
    migrationsTable,    \* rows of table migrations
    schema,             \* ids of the migrations whose up is in effect
    runner,             \* the current or last run of the script
    migClock,           \* now() of the database: one tick per transaction
    runs                \* number of runs of the script so far

\* State of the App component (frontend App.tsx) and of its requests.
VARIABLES
    appTodos,           \* useState todos: the list that is rendered
    loading,            \* useState loading
    error,              \* useState error: NULL or the message shown
    pendingTodoIds,     \* useState pendingTodoIds: ids with an operation syncing
    appReqs,            \* the requests of the App, in the order they were sent
    seenIds             \* todo ids the server has named in a response so far

server == <<users, refresh_tokens, reqs, clock, ticks, calls, loggedOut>>
migrator == <<migrationsTable, schema, runner, migClock, runs>>
todoStore == <<todos, treqs, todoCalls, todoSeq>>
app == <<appTodos, loading, error, pendingTodoIds, appReqs, seenIds>>
client == <<accessToken, currentUser, localStorage, refreshPromiseRef,
            promises, fetches, refreshCalls, api>>
\* What the auth handlers and the auth hook leave alone.
others == <<todoStore, migrator, app>>
vars == <<users, refresh_tokens, reqs, clock, ticks, calls, loggedOut,
          accessToken, currentUser, localStorage, refreshPromiseRef,
          promises, fetches, refreshCalls, api, others>>

(* ------------------------- pure helper functions ----------------------- *)
\* String.prototype.toLowerCase on the e-mail addresses of the model.
ToLowerCase(e) ==
    CASE e = "Alice@Example.com" -> "alice@example.com"
      [] OTHER -> e

\* z.string().email()
IsEmail(e) == e \in Emails

\* CreateUserSchema.safeParse(body).success
CreateUserSchemaOk(body) ==
    /\ IsEmail(body.email)
    /\ Len(body.password) >= 8
    /\ Len(body.name) >= 1

\* LoginSchema.safeParse(body).success
LoginSchemaOk(body) == IsEmail(body.email)

\* RefreshTokenSchema.safeParse(body).success: the body carries a refreshToken.
RefreshTokenSchemaOk(body) == body # NULL

\* Variant: the token is stored and looked up as it is.
hashRefreshTokenIdentity(token) == token

\* hashRefreshToken: a one-way digest, injective on the pool, never the raw value.
hashRefreshToken(token) == <<"sha256", token>>

\* bcrypt.hash(password, 12) and bcrypt.compare(password, hash).
BcryptHash(password) == <<"bcrypt", BCRYPT_ROUNDS, password>>
BcryptCompare(password, hash) == hash = BcryptHash(password)

\* new Date()
NewDate == [time |-> clock]

\* Faulty variant: the expiry date without the configured days added.
getRefreshTokenExpiresAtToday == [time |-> clock]

\* getRefreshTokenExpiresAt: today plus the configured number of days.
getRefreshTokenExpiresAt == [time |-> clock + JWT_REFRESH_EXPIRES_IN_DAYS]

\* createAccessToken: the signed claims {sub, email} plus the issue time.
createAccessToken(user) == [sub |-> user.id, email |-> user.email, iat |-> clock]

\* mapUser: the public view of a user row.
mapUser(row) == [id |-> row.id, email |-> row.email, name |-> row.name]

(* ------------------------------ the store ------------------------------ *)
\* db.selectFrom("users").where("email", "=", email).executeTakeFirst()
SelectUserByEmail(email) ==
    IF \E u \in users : u.email = email
    THEN CHOOSE u \in users : u.email = email
    ELSE NULL

\* Faulty variant: the owner lookup of /refresh without its WHERE clause.
SelectFirstUser(id) ==
    IF users # {}
    THEN mapUser(CHOOSE u \in users : \A v \in users : u.id <= v.id)
    ELSE NULL

\* db.selectFrom("users").where("id", "=", id).executeTakeFirst()
SelectUserById(id) ==
    IF \E u \in users : u.id = id
    THEN mapUser(CHOOSE u \in users : u.id = id)
    ELSE NULL

\* Faulty variant: the users table without the UNIQUE constraint on email.
UsersEmailNeverTaken(email) == FALSE

\* UNIQUE constraint on users.email: would inserting this e-mail violate it?
UsersEmailTaken(email) == \E u \in users : u.email = email

\* Faulty variant: refresh_tokens without the UNIQUE constraint on token_hash.
TokenHashNeverTaken(hash) == FALSE

\* UNIQUE constraint on refresh_tokens.token_hash.
TokenHashTaken(hash) == \E s \in refresh_tokens : s.token_hash = hash

\* The row INSERT INTO users creates (id from uuid_generate_v4()).
NewUserRow(email, passwordHash, name) ==
    [id |-> Cardinality(users) + 1, email |-> email,
     password_hash |-> passwordHash, name |-> name]

\* Variant: every new session row is owned by the first user.
NewSessionRowOfFirstUser(userId, hash, expiresAt) ==
    [id |-> Cardinality(refresh_tokens) + 1, user_id |-> 1,
     token_hash |-> hash, expires_at |-> expiresAt, revoked_at |-> NULL,
     created_at |-> NewDate]

\* The row INSERT INTO refresh_tokens creates.
NewSessionRow(userId, hash, expiresAt) ==
    [id |-> Cardinality(refresh_tokens) + 1, user_id |-> userId,
     token_hash |-> hash, expires_at |-> expiresAt, revoked_at |-> NULL,
     created_at |-> NewDate]

\* selectFrom("refresh_tokens").where("token_hash", "=", hash) in /refresh
SelectSessionByHash(hash) ==
    IF \E s \in refresh_tokens : s.token_hash = hash
    THEN CHOOSE s \in refresh_tokens : s.token_hash = hash
    ELSE NULL

\* Faulty variant: the /logout lookup without its revoked_at filter.
SelectAnySessionByHash(hash) == SelectSessionByHash(hash)

\* ... .where("token_hash", "=", hash).where("revoked_at", "is", null) in /logout
SelectUnrevokedSessionByHash(hash) ==
    IF \E s \in refresh_tokens : s.token_hash = hash /\ s.revoked_at = NULL
    THEN CHOOSE s \in refresh_tokens : s.token_hash = hash /\ s.revoked_at = NULL
    ELSE NULL

\* Faulty variant: the UPDATE of /logout without its WHERE clause.
UpdateRevokedAtEveryRow(id, date) ==
    {[s EXCEPT !.revoked_at = date] : s \in refresh_tokens}

\* updateTable("refresh_tokens").set({revoked_at}).where("id", "=", id)
UpdateRevokedAt(id, date) ==
    {IF s.id = id THEN [s EXCEPT !.revoked_at = date] ELSE s : s \in refresh_tokens}

\* Faulty variant: the test of /refresh without the revoked_at disjunct.
SessionRejectedIgnoringRevoked(session, now) ==
    \/ session = NULL
    \/ session.expires_at.time <= now.time

\* Faulty variant: the expiry comparison of /refresh with < for <=.
SessionRejectedNonStrict(session, now) ==
    \/ session = NULL
    \/ session.revoked_at # NULL
    \/ session.expires_at.time < now.time

\* Faulty variant: the test of /refresh without the expires_at disjunct.
SessionRejectedIgnoringExpiry(session, now) ==
    \/ session = NULL
    \/ session.revoked_at # NULL

\* The test of /refresh on the row it read: reject when there is no row, the
\* row is revoked, or it has expired.
SessionRejected(session, now) ==
    \/ session = NULL
    \/ session.revoked_at # NULL
    \/ session.expires_at.time <= now.time

(* ------------------------------ replies -------------------------------- *)
ErrorReply(status, code, message) ==
    [status |-> status, code |-> code, message |-> message, data |-> NULL]

\* The 400 reply every handler sends when safeParse fails.
ValidationError == ErrorReply(400, "VALIDATION_ERROR", "Invalid input")

\* /register: the e-mail is already registered.
EmailExists ==
    ErrorReply(409, "EMAIL_EXISTS", "An account with this email already exists")

\* Faulty variant: a reply that tells an unknown e-mail from a wrong password.
LoginUserNotFoundReplyLeaky == ErrorReply(404, "USER_NOT_FOUND", "User not found")

\* /login: no user has this e-mail.
LoginUserNotFoundReply ==
    ErrorReply(401, "INVALID_CREDENTIALS", "Invalid email or password")

\* /login: bcrypt.compare failed.
LoginWrongPasswordReply ==
    ErrorReply(401, "INVALID_CREDENTIALS", "Invalid email or password")

\* /refresh: no row, a revoked row or an expired row.
RefreshInvalidTokenReply ==
    ErrorReply(401, "INVALID_TOKEN", "Invalid or expired refresh token")

\* /refresh: the owner of the row no longer exists.
RefreshNoUserReply ==
    ErrorReply(401, "INVALID_TOKEN", "Invalid or expired refresh token")

\* /logout: no unrevoked row.
LogoutInvalidTokenReply ==
    ErrorReply(401, "INVALID_TOKEN", "Invalid or expired refresh token")

\* setErrorHandler: what a thrown database error turns into.
ErrorHandler(errorMessage) ==
    ErrorReply(500, "INTERNAL_ERROR",
               IF NODE_ENV = "development" THEN errorMessage
               ELSE "Internal server error")

\* reply.status(s).send({success: true, data: {token, refreshToken, user}})
AuthReply(status, token, refreshToken, user) ==
    [status |-> status, code |-> "OK", message |-> "",
     data |-> [token |-> token, refreshToken |-> refreshToken, user |-> user]]

\* reply.status(204).send()
NoContent == [status |-> 204, code |-> "OK", message |-> "", data |-> NULL]

(* --------------------------- request slots ----------------------------- *)
IdleReq ==
    [op |-> "none", pc |-> "idle", body |-> NULL, existing |-> NULL,
     user |-> NULL, session |-> NULL, now |-> NULL, res |-> NULL,
     after |-> FALSE]

\* Slot r can take a new request.
Free(r) == reqs[r].pc \in {"idle", "done"} /\ calls < MaxCalls

Begin(op, body) == [IdleReq EXCEPT !.op = op, !.body = body]

Done(req, reply) == [req EXCEPT !.pc = "done", !.res = reply]

\* The migration runner before its first run.
IdleRunner ==
    [direction |-> "none", pc |-> "idle", count |-> 0, applied |-> <<>>,
     queue |-> <<>>, log |-> <<>>, failed |-> FALSE]

\* A request slot of the todo routes before its first request.
IdleTodoReq ==
    [op |-> "none", pc |-> "idle", userId |-> 0, id |-> 0, body |-> NULL,
     total |-> 0, res |-> NULL]

Init ==
    /\ users = {}
    /\ refresh_tokens = {}
    /\ reqs = [r \in Requests |-> IdleReq]
    /\ clock = 0
    /\ ticks = 0
    /\ calls = 0
    /\ loggedOut = {}
    /\ accessToken = NULL
    /\ currentUser = NULL
    /\ localStorage = <<>>
    /\ refreshPromiseRef = NULL
    /\ promises = <<>>
    /\ fetches = {}
    /\ refreshCalls = <<>>
    /\ api = <<>>
    /\ todos = {}
    /\ treqs = [r \in Requests |-> IdleTodoReq]
    /\ todoCalls = 0
    /\ todoSeq = 0
    /\ migrationsTable = {}
    /\ schema = {}
    /\ runner = IdleRunner
    /\ migClock = 0
    /\ runs = 0
    /\ appTodos = <<>>
    /\ loading = FALSE
    /\ error = NULL
    /\ pendingTodoIds = <<>>
    /\ appReqs = <<>>
    /\ seenIds = {}

(* --------------------------- POST /register ---------------------------- *)
\* Validation and the existence check.
RegisterCheck(r, body) ==
    /\ Free(r)
    /\ LET req == Begin("register", body) IN
       IF ~CreateUserSchemaOk(body)
       THEN reqs' = [reqs EXCEPT ![r] = Done(req, ValidationError)]
       ELSE LET existing == SelectUserByEmail(ToLowerCase(body.email)) IN
            IF existing # NULL
            THEN reqs' = [reqs EXCEPT ![r] =
                             Done([req EXCEPT !.existing = [id |-> existing.id]], EmailExists)]
            ELSE reqs' = [reqs EXCEPT ![r] = [req EXCEPT !.pc = "insert_user"]]
    /\ calls' = calls + 1
    /\ UNCHANGED <<users, refresh_tokens, clock, ticks, loggedOut, client, others>>

\* bcrypt.hash and INSERT INTO users.
RegisterInsertUser(r) ==
    /\ reqs[r].op = "register" /\ reqs[r].pc = "insert_user"
    /\ LET req == reqs[r]
           email == ToLowerCase(req.body.email)
           row == NewUserRow(email, BcryptHash(req.body.password), req.body.name)
       IN  IF UsersEmailTaken(email)
           THEN /\ reqs' = [reqs EXCEPT ![r] =
                               Done(req, ErrorHandler("users_email_key"))]
                /\ UNCHANGED users
           ELSE /\ users' = users \cup {row}
                /\ reqs' = [reqs EXCEPT ![r] =
                               [req EXCEPT !.user = mapUser(row), !.pc = "insert_token"]]
    /\ UNCHANGED <<refresh_tokens, clock, ticks, calls, loggedOut, client, others>>

\* generateRefreshToken, INSERT INTO refresh_tokens, createAccessToken, 201.
RegisterInsertToken(r) ==
    /\ reqs[r].op = "register" /\ reqs[r].pc = "insert_token"
    /\ \E refreshToken \in Tokens :
         LET req == reqs[r]
             hash == hashRefreshToken(refreshToken)
         IN  IF TokenHashTaken(hash)
             THEN /\ reqs' = [reqs EXCEPT ![r] =
                                 Done(req, ErrorHandler("refresh_tokens_token_hash_key"))]
                  /\ UNCHANGED refresh_tokens
             ELSE /\ refresh_tokens' = refresh_tokens \cup
                        {NewSessionRow(req.user.id, hash, getRefreshTokenExpiresAt)}
                  /\ reqs' = [reqs EXCEPT ![r] =
                                 Done(req, AuthReply(201, createAccessToken(req.user),
                                                     refreshToken, req.user))]
    /\ UNCHANGED <<users, clock, ticks, calls, loggedOut, client, others>>

(* ----------------------------- POST /login ----------------------------- *)
\* Validation and the user lookup.
LoginFindUser(r, body) ==
    /\ Free(r)
    /\ LET req == Begin("login", body) IN
       IF ~LoginSchemaOk(body)
       THEN reqs' = [reqs EXCEPT ![r] = Done(req, ValidationError)]
       ELSE LET user == SelectUserByEmail(ToLowerCase(body.email)) IN
            IF user = NULL
            THEN reqs' = [reqs EXCEPT ![r] = Done(req, LoginUserNotFoundReply)]
            ELSE reqs' = [reqs EXCEPT ![r] = [req EXCEPT !.user = user, !.pc = "verify"]]
    /\ calls' = calls + 1
    /\ UNCHANGED <<users, refresh_tokens, clock, ticks, loggedOut, client, others>>

\* bcrypt.compare, generateRefreshToken, INSERT INTO refresh_tokens, 200.
LoginVerify(r) ==
    /\ reqs[r].op = "login" /\ reqs[r].pc = "verify"
    /\ \E refreshToken \in Tokens :
         LET req == reqs[r]
             hash == hashRefreshToken(refreshToken)
         IN  IF ~BcryptCompare(req.body.password, req.user.password_hash)
             THEN /\ reqs' = [reqs EXCEPT ![r] = Done(req, LoginWrongPasswordReply)]
                  /\ UNCHANGED refresh_tokens
             ELSE IF TokenHashTaken(hash)
             THEN /\ reqs' = [reqs EXCEPT ![r] =
                                 Done(req, ErrorHandler("refresh_tokens_token_hash_key"))]
                  /\ UNCHANGED refresh_tokens
             ELSE /\ refresh_tokens' = refresh_tokens \cup
                        {NewSessionRow(req.user.id, hash, getRefreshTokenExpiresAt)}
                  /\ reqs' = [reqs EXCEPT ![r] =
                                 Done(req, AuthReply(200, createAccessToken(req.user),
                                                     refreshToken, mapUser(req.user)))]
    /\ UNCHANGED <<users, clock, ticks, calls, loggedOut, client, others>>

(* ---------------------------- POST /refresh ---------------------------- *)
\* Validation and the session lookup by token hash.
RefreshSelectSession(r, body) ==
    /\ Free(r)
    /\ LET req == Begin("refresh", body) IN
       IF ~RefreshTokenSchemaOk(body)
       THEN reqs' = [reqs EXCEPT ![r] = Done(req, ValidationError)]
       ELSE reqs' = [reqs EXCEPT ![r] =
                        [req EXCEPT
                           !.session = SelectSessionByHash(hashRefreshToken(body.refreshToken)),
                           !.after = body.refreshToken \in loggedOut,
                           !.pc = "check"]]
    /\ calls' = calls + 1
    /\ UNCHANGED <<users, refresh_tokens, clock, ticks, loggedOut, client, others>>

\* now = new Date(), the test of the row read, and the owner lookup.
RefreshCheck(r) ==
    /\ reqs[r].op = "refresh" /\ reqs[r].pc = "check"
    /\ LET req == [reqs[r] EXCEPT !.now = NewDate] IN
       IF SessionRejected(req.session, req.now)
       THEN reqs' = [reqs EXCEPT ![r] = Done(req, RefreshInvalidTokenReply)]
       ELSE reqs' = [reqs EXCEPT ![r] =
                        [req EXCEPT !.user = SelectUserById(req.session.user_id),
                                    !.pc = "respond"]]
    /\ UNCHANGED <<users, refresh_tokens, clock, ticks, calls, loggedOut>>
    /\ UNCHANGED <<client, others>>

\* Faulty variant: a refresh that rotates, rewriting the row's token hash and
\* replying with the new raw token.
RefreshRespondRotating(r) ==
    /\ reqs[r].op = "refresh" /\ reqs[r].pc = "respond"
    /\ \E refreshToken \in Tokens :
         LET req == reqs[r] IN
         /\ ~(\E s \in refresh_tokens : s.token_hash = hashRefreshToken(refreshToken))
         /\ refresh_tokens' =
               {IF s.id = req.session.id
                THEN [s EXCEPT !.token_hash = hashRefreshToken(refreshToken)]
                ELSE s : s \in refresh_tokens}
         /\ reqs' = [reqs EXCEPT ![r] =
                        Done(req, AuthReply(200, createAccessToken(req.user),
                                            refreshToken, req.user))]
    /\ UNCHANGED <<users, clock, ticks, calls, loggedOut, client, others>>

\* The owner test, createAccessToken and the 200 reply.
RefreshRespond(r) ==
    /\ reqs[r].op = "refresh" /\ reqs[r].pc = "respond"
    /\ LET req == reqs[r] IN
       IF req.user = NULL
       THEN reqs' = [reqs EXCEPT ![r] = Done(req, RefreshNoUserReply)]
       ELSE reqs' = [reqs EXCEPT ![r] =
                        Done(req, AuthReply(200, createAccessToken(req.user),
                                            req.body.refreshToken, req.user))]
    /\ UNCHANGED <<users, refresh_tokens, clock, ticks, calls, loggedOut>>
    /\ UNCHANGED <<client, others>>

(* ----------------------------- POST /logout ---------------------------- *)
\* Validation and the lookup of an unrevoked session by token hash.
LogoutSelectSession(r, body) ==
    /\ Free(r)
    /\ LET req == [Begin("logout", body) EXCEPT
                      !.after = body # NULL /\ body.refreshToken \in loggedOut] IN
       IF ~RefreshTokenSchemaOk(body)
       THEN reqs' = [reqs EXCEPT ![r] = Done(req, ValidationError)]
       ELSE LET session ==
                    SelectUnrevokedSessionByHash(hashRefreshToken(body.refreshToken)) IN
            IF session = NULL
            THEN reqs' = [reqs EXCEPT ![r] = Done(req, LogoutInvalidTokenReply)]
            ELSE reqs' = [reqs EXCEPT ![r] =
                             [req EXCEPT !.session = session, !.pc = "update"]]
    /\ calls' = calls + 1
    /\ UNCHANGED <<users, refresh_tokens, clock, ticks, loggedOut, client, others>>

\* UPDATE refresh_tokens SET revoked_at = new Date() WHERE id = session.id; 204.
LogoutUpdate(r) ==
    /\ reqs[r].op = "logout" /\ reqs[r].pc = "update"
    /\ refresh_tokens' = UpdateRevokedAt(reqs[r].session.id, NewDate)
    /\ reqs' = [reqs EXCEPT ![r] = Done(reqs[r], NoContent)]
    /\ loggedOut' = loggedOut \cup {reqs[r].body.refreshToken}
    /\ UNCHANGED <<users, clock, ticks, calls, client, others>>

(* ----------------------------- the clock ------------------------------- *)
Tick(d) ==
    /\ ticks < MaxTicks
    /\ clock' = clock + d
    /\ ticks' = ticks + 1
    /\ UNCHANGED <<users, refresh_tokens, reqs, calls, loggedOut, client, others>>

Next ==
    \/ \E r \in Requests, body \in RegisterBodies : RegisterCheck(r, body)
    \/ \E r \in Requests : RegisterInsertUser(r)
    \/ \E r \in Requests : RegisterInsertToken(r)
    \/ \E r \in Requests, body \in LoginBodies : LoginFindUser(r, body)
    \/ \E r \in Requests : LoginVerify(r)
    \/ \E r \in Requests, body \in RefreshTokenBodies : RefreshSelectSession(r, body)
    \/ \E r \in Requests : RefreshCheck(r)
    \/ \E r \in Requests : RefreshRespond(r)
    \/ \E r \in Requests, body \in RefreshTokenBodies : LogoutSelectSession(r, body)
    \/ \E r \in Requests : LogoutUpdate(r)
    \/ \E d \in ClockSteps : Tick(d)

Spec == Init /\ [][Next]_vars

(* ============================ the web client ============================ *)
(* The useAuth hook (hooks/useAuth.ts) and apiFetch (api/todos.ts) of one   *)
(* browser tab.  The server is the environment here: every response it can  *)
(* give to a request is a possible input of the action that receives it.    *)

\* Number of refreshAccessToken() calls in one behaviour.
MaxRefreshCalls == 3
\* Number of apiFetch() calls in one behaviour.
MaxApiCalls == 1

REFRESH_TOKEN_KEY == "martian_todos_refresh_token"

\* Users and access tokens the server hands out.
ClientUsers == {[id |-> 1, email |-> "alice@example.com", name |-> "Alice"]}
AccessTokens ==
    {[sub |-> 1, email |-> "alice@example.com", iat |-> i] : i \in 0..1}

\* The AuthResponse payloads of /register and /login handed to login().
AuthResponses ==
    {[token |-> a, refreshToken |-> t, user |-> u] :
        a \in AccessTokens, t \in Tokens, u \in ClientUsers}

\* What POST /auth/refresh with raw token t can answer.
RefreshResponses(t) ==
    {AuthReply(200, a, t, u) : a \in AccessTokens, u \in ClientUsers}
    \cup {RefreshInvalidTokenReply, ErrorHandler("connection refused")}

\* What a todos endpoint can answer to apiFetch.
ApiResponses ==
    {[status |-> 200, code |-> "OK", message |-> "", data |-> [items |-> <<>>]],
     NoContent,
     ErrorReply(401, "UNAUTHORIZED", "Invalid or expired token"),
     ErrorReply(404, "NOT_FOUND", "Todo not found")}

\* Response.ok
ResponseOk(response) == response.status \in 200..299

\* localStorage.getItem(key) !== null, setItem and removeItem.
HasItem(key) == key \in DOMAIN localStorage
SetItem(key, value) ==
    [k \in DOMAIN localStorage \cup {key} |->
        IF k = key THEN value ELSE localStorage[k]]
RemoveItem(key) == [k \in DOMAIN localStorage \ {key} |-> localStorage[k]]

\* Promises of refreshAccessToken(): a handle names an entry of promises.
Pending == [state |-> "pending", value |-> NULL]
Fulfilled(value) == [state |-> "fulfilled", value |-> value]
NewPromise == [id |-> Len(promises) + 1]

\* Variant: login() never stores the refresh token of the response.
loginNotStoringRefreshToken(authResponse) ==
    /\ accessToken' = authResponse.token
    /\ currentUser' = authResponse.user
    /\ UNCHANGED localStorage

\* login(authResponse): the state it sets.
login(authResponse) ==
    /\ accessToken' = authResponse.token
    /\ currentUser' = authResponse.user
    /\ localStorage' =
           IF "refreshToken" \in DOMAIN authResponse
           THEN SetItem(REFRESH_TOKEN_KEY, authResponse.refreshToken)
           ELSE localStorage

\* Variant: logout() leaves the stored refresh token in place.
logoutKeepingRefreshToken ==
    /\ accessToken' = NULL
    /\ currentUser' = NULL
    /\ UNCHANGED localStorage

\* Variant: logout() leaves the user in place.
logoutKeepingUser ==
    /\ accessToken' = NULL
    /\ UNCHANGED currentUser
    /\ localStorage' = RemoveItem(REFRESH_TOKEN_KEY)

\* logout(): the state it clears.
logout ==
    /\ accessToken' = NULL
    /\ currentUser' = NULL
    /\ localStorage' = RemoveItem(REFRESH_TOKEN_KEY)

\* Variant: the in-flight test never sees the handle.
RefreshInFlightNever == FALSE

\* if (refreshPromiseRef.current): a refresh is already in flight.
RefreshInFlight == refreshPromiseRef # NULL

\* Variant: the handle is left as it is when the refresh settles.
KeepRefreshPromiseRef == UNCHANGED refreshPromiseRef

\* finally { refreshPromiseRef.current = null }
ClearRefreshPromiseRef == refreshPromiseRef' = NULL

\* The async body of refreshAccessToken() returns value for fetch f: the
\* finally block runs and the promise is fulfilled.
RefreshReturns(f, value) ==
    /\ ClearRefreshPromiseRef
    /\ promises' = [promises EXCEPT ![f.promise.id] = Fulfilled(value)]
    /\ fetches' = fetches \ {f}

\* The page calls login() with the payload of a successful sign-in.
CallLogin(authResponse) ==
    /\ login(authResponse)
    /\ UNCHANGED <<refreshPromiseRef, promises, fetches, refreshCalls, api>>
    /\ UNCHANGED <<server, others>>

\* The user presses Sign Out.
CallLogout ==
    /\ logout
    /\ UNCHANGED <<refreshPromiseRef, promises, fetches, refreshCalls, api>>
    /\ UNCHANGED <<server, others>>

\* refreshAccessToken(), up to the point where it returns its promise.
refreshAccessToken ==
    /\ Len(refreshCalls) < MaxRefreshCalls
    /\ IF RefreshInFlight
       THEN /\ refreshCalls' = Append(refreshCalls,
                                      [promise |-> refreshPromiseRef,
                                       sent |-> FALSE])
            /\ UNCHANGED <<accessToken, currentUser, localStorage,
                           refreshPromiseRef, promises, fetches>>
       ELSE IF ~HasItem(REFRESH_TOKEN_KEY)
       THEN /\ logout
            /\ promises' = Append(promises, Fulfilled(NULL))
            /\ refreshCalls' = Append(refreshCalls,
                                      [promise |-> NewPromise, sent |-> FALSE])
            /\ UNCHANGED <<refreshPromiseRef, fetches>>
       ELSE /\ promises' = Append(promises, Pending)
            /\ fetches' = fetches \cup
                   {[promise |-> NewPromise,
                     refreshToken |-> localStorage[REFRESH_TOKEN_KEY],
                     pc |-> "fetch", response |-> NULL]}
            /\ refreshPromiseRef' = NewPromise
            /\ refreshCalls' = Append(refreshCalls,
                                      [promise |-> NewPromise, sent |-> TRUE])
            /\ UNCHANGED <<accessToken, currentUser, localStorage>>
    /\ UNCHANGED api
    /\ UNCHANGED <<server, others>>

\* await fetch(".../auth/refresh") settles with a response.
RefreshFetchResponds(f, response) ==
    /\ f \in fetches /\ f.pc = "fetch"
    /\ IF ~ResponseOk(response)
       THEN /\ logout
            /\ RefreshReturns(f, NULL)
       ELSE /\ fetches' = (fetches \ {f}) \cup
                              {[f EXCEPT !.pc = "json", !.response = response]}
            /\ UNCHANGED <<accessToken, currentUser, localStorage,
                           refreshPromiseRef, promises>>
    /\ UNCHANGED <<refreshCalls, api>>
    /\ UNCHANGED <<server, others>>

\* await fetch(".../auth/refresh") rejects: the catch block runs.
RefreshFetchThrows(f) ==
    /\ f \in fetches /\ f.pc = "fetch"
    /\ logout
    /\ RefreshReturns(f, NULL)
    /\ UNCHANGED <<refreshCalls, api>>
    /\ UNCHANGED <<server, others>>

\* await response.json() yields the body: the new session is stored.
RefreshJsonParsed(f) ==
    /\ f \in fetches /\ f.pc = "json"
    /\ LET data == f.response.data IN
          /\ accessToken' = data.token
          /\ currentUser' = data.user
          /\ localStorage' =
                 IF "refreshToken" \in DOMAIN data
                 THEN SetItem(REFRESH_TOKEN_KEY, data.refreshToken)
                 ELSE localStorage
          /\ RefreshReturns(f, data.token)
    /\ UNCHANGED <<refreshCalls, api>>
    /\ UNCHANGED <<server, others>>

\* await response.json() rejects: the catch block runs.
RefreshJsonThrows(f) ==
    /\ f \in fetches /\ f.pc = "json"
    /\ logout
    /\ RefreshReturns(f, NULL)
    /\ UNCHANGED <<refreshCalls, api>>
    /\ UNCHANGED <<server, others>>

\* apiFetch(endpoint, token, options), up to its await fetch(...).
apiFetch ==
    /\ Len(api) < MaxApiCalls
    /\ accessToken # NULL
    /\ api' = Append(api, [token |-> accessToken, pc |-> "fetch", sends |-> 1,
                           response |-> NULL, threw |-> FALSE])
    /\ UNCHANGED <<accessToken, currentUser, localStorage,
                   refreshPromiseRef, promises, fetches, refreshCalls>>
    /\ UNCHANGED <<server, others>>

\* The fetch of apiFetch call i settles with a response: a response that is
\* not ok is thrown as an Error, any other is returned.
ApiFetchResponds(i, response) ==
    /\ i \in DOMAIN api /\ api[i].pc = "fetch"
    /\ api' = [api EXCEPT ![i] = [@ EXCEPT !.pc = "done",
                                           !.response = response,
                                           !.threw = ~ResponseOk(response)]]
    /\ UNCHANGED <<accessToken, currentUser, localStorage,
                   refreshPromiseRef, promises, fetches, refreshCalls>>
    /\ UNCHANGED <<server, others>>

\* The fetch of apiFetch call i rejects: the rejection propagates.
ApiFetchThrows(i) ==
    /\ i \in DOMAIN api /\ api[i].pc = "fetch"
    /\ api' = [api EXCEPT ![i] = [@ EXCEPT !.pc = "done", !.threw = TRUE]]
    /\ UNCHANGED <<accessToken, currentUser, localStorage,
                   refreshPromiseRef, promises, fetches, refreshCalls>>
    /\ UNCHANGED <<server, others>>

NextClient ==
    \/ \E authResponse \in AuthResponses : CallLogin(authResponse)
    \/ CallLogout
    \/ refreshAccessToken
    \/ \E f \in fetches : \E response \in RefreshResponses(f.refreshToken) :
           RefreshFetchResponds(f, response)
    \/ \E f \in fetches : RefreshFetchThrows(f)
    \/ \E f \in fetches : RefreshJsonParsed(f)
    \/ \E f \in fetches : RefreshJsonThrows(f)
    \/ apiFetch
    \/ \E i \in DOMAIN api, response \in ApiResponses :
           ApiFetchResponds(i, response)
    \/ \E i \in DOMAIN api : ApiFetchThrows(i)

SpecClient == Init /\ [][NextClient]_vars

(* ============================ the todo routes =========================== *)
(* The handlers of routes/todos.ts, for requests that have passed the       *)
(* authenticate hook.  Ids stand for the UUIDs the database generates: a    *)
(* fresh one for every INSERT.  The clock of this part is the number of     *)
(* requests received.                                                       *)

\* Number of rows ever inserted into todos.
MaxTodos == 2
\* Number of todo requests in one behaviour.
MaxTodoCalls == 4

\* request.user.sub of the authenticated callers.
TodoUserIds == {1, 2}
\* The :id parameters sent; 0 stands for a string that is not a UUID.
TodoIdParams == 0..MaxTodos
\* Bodies of POST /todos; the last fails CreateTodoSchema.
CreateTodoBodies == {[title |-> "milk"], [title |-> ""]}
\* Bodies of PATCH /todos/:id; the empty one has no field to update and the
\* last fails UpdateTodoSchema.
UpdateTodoBodies ==
    {[status |-> "completed"], [title |-> "bread"], <<>>, [title |-> ""]}
\* Query strings of GET /todos; the last fails ListTodosSchema.
ListTodosQueries == {<<>>, [status |-> "completed"], [page |-> 0]}

\* TodoIdSchema, CreateTodoSchema, UpdateTodoSchema, ListTodosSchema.
TodoIdSchemaOk(id) == id >= 1
CreateTodoSchemaOk(body) == Len(body.title) \in 1..200
UpdateTodoSchemaOk(body) ==
    ("title" \in DOMAIN body) => Len(body.title) \in 1..200
ListTodosSchemaOk(query) == ("page" \in DOMAIN query) => query.page >= 1

\* new Date() in this part.
TodoNow == [time |-> todoCalls]

\* mapTodo
mapTodo(row) ==
    [id |-> row.id, userId |-> row.user_id, title |-> row.title,
     priority |-> row.priority, status |-> row.status,
     updatedAt |-> row.updated_at]

\* Faulty variant: the row is selected by id alone.
SelectTodoById(id, userId) == {t \in todos : t.id = id}

\* selectFrom("todos").where("id", "=", id).where("user_id", "=", userId)
SelectTodoByIdAndUser(id, userId) ==
    {t \in todos : t.id = id /\ t.user_id = userId}

\* selectFrom("todos").where("user_id", "=", userId) with applyTodoFilters
SelectTodosOfUser(userId, query) ==
    {t \in todos :
        /\ t.user_id = userId
        /\ ("status" \in DOMAIN query) => t.status = query.status}

\* The row INSERT INTO todos creates.
NewTodoRow(userId, body) ==
    [id |-> todoSeq + 1,
     user_id |-> userId, title |-> body.title, priority |-> "medium",
     status |-> "pending", updated_at |-> TodoNow]

\* The changes PATCH /todos/:id collects from the body, applied to a row.
ApplyUpdates(row, body) ==
    [row EXCEPT
       !.title = IF "title" \in DOMAIN body THEN body.title ELSE @,
       !.status = IF "status" \in DOMAIN body THEN body.status ELSE @,
       !.updated_at = TodoNow]

\* reply.status(s).send({success: true, data})
TodoReply(status, data) ==
    [status |-> status, code |-> "OK", message |-> "", data |-> data]

\* The 404 of the :id routes.
TodoNotFound == ErrorReply(404, "NOT_FOUND", "Todo not found")

\* Slot r can take a new todo request.
TodoFree(r) == treqs[r].pc \in {"idle", "done"} /\ todoCalls < MaxTodoCalls

TodoBegin(op, userId, id, body) ==
    [IdleTodoReq EXCEPT !.op = op, !.userId = userId, !.id = id, !.body = body]

TodoDone(req, reply) == [req EXCEPT !.pc = "done", !.res = reply]

\* What the handlers of the todo routes leave alone.
todoFrame == <<server, client, migrator, app>>

\* GET /todos up to the count query.
ListTodosCount(r, userId, query) ==
    /\ TodoFree(r)
    /\ LET req == TodoBegin("list", userId, 0, query) IN
       IF ~ListTodosSchemaOk(query)
       THEN treqs' = [treqs EXCEPT ![r] =
                         TodoDone(req, ErrorReply(400, "VALIDATION_ERROR",
                                                  "Invalid query parameters"))]
       ELSE treqs' = [treqs EXCEPT ![r] =
                         [req EXCEPT
                            !.total = Cardinality(SelectTodosOfUser(userId, query)),
                            !.pc = "list_data"]]
    /\ todoCalls' = todoCalls + 1
    /\ UNCHANGED <<todos, todoSeq, todoFrame>>

\* GET /todos: the data query and the reply.
ListTodosData(r) ==
    /\ treqs[r].op = "list" /\ treqs[r].pc = "list_data"
    /\ LET req == treqs[r]
           items == {mapTodo(t) : t \in SelectTodosOfUser(req.userId, req.body)}
       IN  treqs' = [treqs EXCEPT ![r] =
                        TodoDone(req, TodoReply(200, [items |-> items,
                                                      total |-> req.total]))]
    /\ UNCHANGED <<todos, todoCalls, todoSeq, todoFrame>>

\* GET /todos/:id
GetTodo(r, userId, id) ==
    /\ TodoFree(r)
    /\ LET req == TodoBegin("get", userId, id, NULL) IN
       IF ~TodoIdSchemaOk(id)
       THEN treqs' = [treqs EXCEPT ![r] =
                         TodoDone(req, ErrorReply(400, "VALIDATION_ERROR",
                                                  "Invalid todo id"))]
       ELSE LET found == SelectTodoByIdAndUser(id, userId) IN
            IF found = {}
            THEN treqs' = [treqs EXCEPT ![r] = TodoDone(req, TodoNotFound)]
            ELSE treqs' = [treqs EXCEPT ![r] =
                              TodoDone(req, TodoReply(200,
                                  mapTodo(CHOOSE t \in found : TRUE)))]
    /\ todoCalls' = todoCalls + 1
    /\ UNCHANGED <<todos, todoSeq, todoFrame>>

\* POST /todos
CreateTodo(r, userId, body) ==
    /\ TodoFree(r)
    /\ LET req == TodoBegin("create", userId, 0, body) IN
       IF ~CreateTodoSchemaOk(body)
       THEN /\ treqs' = [treqs EXCEPT ![r] =
                            TodoDone(req, ErrorReply(400, "VALIDATION_ERROR",
                                                     "Invalid input"))]
            /\ UNCHANGED <<todos, todoSeq>>
       ELSE /\ todoSeq < MaxTodos
            /\ todos' = todos \cup {NewTodoRow(userId, body)}
            /\ todoSeq' = todoSeq + 1
            /\ treqs' = [treqs EXCEPT ![r] =
                            TodoDone(req, TodoReply(201,
                                mapTodo(NewTodoRow(userId, body))))]
    /\ todoCalls' = todoCalls + 1
    /\ UNCHANGED todoFrame

\* PATCH /todos/complete-all
CompleteAllTodos(r, userId) ==
    /\ TodoFree(r)
    /\ LET req == TodoBegin("complete-all", userId, 0, NULL)
           hit == {t \in todos : t.user_id = userId /\ t.status # "completed"}
       IN  /\ todos' = (todos \ hit) \cup
                  {[t EXCEPT !.status = "completed", !.updated_at = TodoNow] :
                      t \in hit}
           /\ treqs' = [treqs EXCEPT ![r] =
                           TodoDone(req, TodoReply(200,
                               [updated |-> Cardinality(hit)]))]
    /\ todoCalls' = todoCalls + 1
    /\ UNCHANGED <<todoSeq, todoFrame>>

\* DELETE /todos/completed
DeleteCompletedTodos(r, userId) ==
    /\ TodoFree(r)
    /\ LET req == TodoBegin("delete-completed", userId, 0, NULL)
           hit == {t \in todos : t.user_id = userId /\ t.status = "completed"}
       IN  /\ todos' = todos \ hit
           /\ treqs' = [treqs EXCEPT ![r] =
                           TodoDone(req, TodoReply(200,
                               [deleted |-> Cardinality(hit)]))]
    /\ todoCalls' = todoCalls + 1
    /\ UNCHANGED <<todoSeq, todoFrame>>

\* PATCH /todos/:id up to the ownership check.
UpdateTodoCheck(r, userId, id, body) ==
    /\ TodoFree(r)
    /\ LET req == TodoBegin("update", userId, id, body) IN
       IF ~TodoIdSchemaOk(id)
       THEN treqs' = [treqs EXCEPT ![r] =
                         TodoDone(req, ErrorReply(400, "VALIDATION_ERROR",
                                                  "Invalid todo id"))]
       ELSE IF ~UpdateTodoSchemaOk(body)
       THEN treqs' = [treqs EXCEPT ![r] =
                         TodoDone(req, ErrorReply(400, "VALIDATION_ERROR",
                                                  "Invalid input"))]
       ELSE IF DOMAIN body = {}
       THEN treqs' = [treqs EXCEPT ![r] =
                         TodoDone(req, ErrorReply(400, "VALIDATION_ERROR",
                                                  "No fields provided to update"))]
       ELSE IF SelectTodoByIdAndUser(id, userId) = {}
       THEN treqs' = [treqs EXCEPT ![r] = TodoDone(req, TodoNotFound)]
       ELSE treqs' = [treqs EXCEPT ![r] = [req EXCEPT !.pc = "update"]]
    /\ todoCalls' = todoCalls + 1
    /\ UNCHANGED <<todos, todoSeq, todoFrame>>

\* PATCH /todos/:id: UPDATE todos SET ... WHERE id = :id RETURNING *; the
\* statement throws when no row has the id any more.
UpdateTodoWrite(r) ==
    /\ treqs[r].op = "update" /\ treqs[r].pc = "update"
    /\ LET req == treqs[r]
           hit == {t \in todos : t.id = req.id}
       IN  IF hit = {}
           THEN /\ treqs' = [treqs EXCEPT ![r] =
                                TodoDone(req, ErrorHandler("no result"))]
                /\ UNCHANGED todos
           ELSE /\ todos' = (todos \ hit) \cup
                       {ApplyUpdates(t, req.body) : t \in hit}
                /\ treqs' = [treqs EXCEPT ![r] =
                                TodoDone(req, TodoReply(200,
                                    mapTodo(ApplyUpdates(CHOOSE t \in hit : TRUE,
                                                         req.body))))]
    /\ UNCHANGED <<todoCalls, todoSeq, todoFrame>>

\* DELETE /todos/:id
DeleteTodo(r, userId, id) ==
    /\ TodoFree(r)
    /\ LET req == TodoBegin("delete", userId, id, NULL) IN
       IF ~TodoIdSchemaOk(id)
       THEN /\ treqs' = [treqs EXCEPT ![r] =
                            TodoDone(req, ErrorReply(400, "VALIDATION_ERROR",
                                                     "Invalid todo id"))]
            /\ UNCHANGED todos
       ELSE LET hit == SelectTodoByIdAndUser(id, userId) IN
            /\ todos' = todos \ hit
            /\ treqs' = [treqs EXCEPT ![r] =
                            TodoDone(req, IF hit = {} THEN TodoNotFound
                                          ELSE NoContent)]
    /\ todoCalls' = todoCalls + 1
    /\ UNCHANGED <<todoSeq, todoFrame>>

NextTodos ==
    \/ \E r \in Requests, userId \in TodoUserIds, query \in ListTodosQueries :
           ListTodosCount(r, userId, query)
    \/ \E r \in Requests : ListTodosData(r)
    \/ \E r \in Requests, userId \in TodoUserIds, id \in TodoIdParams :
           GetTodo(r, userId, id)
    \/ \E r \in Requests, userId \in TodoUserIds, body \in CreateTodoBodies :
           CreateTodo(r, userId, body)
    \/ \E r \in Requests, userId \in TodoUserIds : CompleteAllTodos(r, userId)
    \/ \E r \in Requests, userId \in TodoUserIds : DeleteCompletedTodos(r, userId)
    \/ \E r \in Requests, userId \in TodoUserIds, id \in TodoIdParams,
          body \in UpdateTodoBodies : UpdateTodoCheck(r, userId, id, body)
    \/ \E r \in Requests : UpdateTodoWrite(r)
    \/ \E r \in Requests, userId \in TodoUserIds, id \in TodoIdParams :
           DeleteTodo(r, userId, id)

SpecTodos == Init /\ [][NextTodos]_vars

(* ========================= the migration runner ========================= *)
(* db/migrate.ts run from the command line, one run at a time.  Every       *)
(* migration is applied or rolled back inside one transaction, so a step    *)
(* that throws leaves the database as it was and ends the run.              *)

\* Number of runs of the script in one behaviour.
MaxRuns == 4

\* migrations: the ordered list of migrations/index.ts, by id.
Migrations == <<"001_initial", "002_add_todo_indexes">>

\* The rollback counts parsed from the command line (none means 1); 0 stands
\* for an argument parseRollbackCount refuses.
RollbackCounts == 0..Len(Migrations)

\* The elements of a sequence.
Range(seq) == {seq[i] : i \in DOMAIN seq}

\* array.filter(keep), for a sequence.
RECURSIVE Filter(_, _)
Filter(seq, keep) ==
    IF seq = <<>> THEN <<>>
    ELSE IF Head(seq) \in keep
         THEN <<Head(seq)>> \o Filter(Tail(seq), keep)
         ELSE Filter(Tail(seq), keep)

\* orderBy("applied_at"): the ids of a set of rows, oldest first.
RECURSIVE OrderByAppliedAt(_)
OrderByAppliedAt(rows) ==
    IF rows = {} THEN <<>>
    ELSE LET first == CHOOSE row \in rows :
                          \A other \in rows :
                              row.applied_at.time <= other.applied_at.time
         IN  <<first.id>> \o OrderByAppliedAt(rows \ {first})

\* orderBy("applied_at", "desc")
RECURSIVE Reverse(_)
Reverse(seq) ==
    IF seq = <<>> THEN <<>> ELSE Reverse(Tail(seq)) \o <<Head(seq)>>
OrderByAppliedAtDesc(rows) == Reverse(OrderByAppliedAt(rows))

\* fetchAppliedMigrations().map(row => row.id)
fetchAppliedMigrations == OrderByAppliedAt(migrationsTable)

\* applied.slice(0, rollbackCount)
Slice(seq, count) ==
    SubSeq(seq, 1, IF count < Len(seq) THEN count ELSE Len(seq))

\* Faulty variant: the step runs outside a transaction, so what migration.up
\* or migration.down did before the throw stays.
NotRolledBack ==
    /\ schema' = IF runner.direction = "up"
                 THEN schema \cup {Head(runner.queue)}
                 ELSE schema \ {Head(runner.queue)}
    /\ migClock' = migClock + 1
    /\ UNCHANGED migrationsTable

\* The database after a transaction that threw: rolled back.
RolledBack ==
    /\ UNCHANGED <<migrationsTable, schema>>
    /\ migClock' = migClock + 1

\* The run moves on to the next migration of its queue, or ends.
Advance(id) ==
    [runner EXCEPT
       !.queue = Tail(@),
       !.log = Append(@, id),
       !.pc = IF Len(runner.queue) = 1 THEN "done" ELSE "running"]

\* The run ends with the error of the step that threw.
Abort == [runner EXCEPT !.pc = "done", !.failed = TRUE]

\* What the migration runner leaves alone.
migFrame == <<server, client, todoStore, app>>

\* migrate up: main, ensureMigrationsTable and migrateUp up to its loop.
migrateUp ==
    /\ runner.pc \in {"idle", "done"} /\ runs < MaxRuns
    /\ LET applied == fetchAppliedMigrations
           pending == Filter(Migrations, Range(Migrations) \ Range(applied))
       IN  runner' = [IdleRunner EXCEPT
                         !.direction = "up", !.applied = applied,
                         !.queue = pending,
                         !.pc = IF pending = <<>> THEN "done" ELSE "running"]
    /\ runs' = runs + 1
    /\ UNCHANGED <<migrationsTable, schema, migClock, migFrame>>

\* applyMigration commits: migration.up and the INSERT INTO migrations.
applyMigration ==
    /\ runner.direction = "up" /\ runner.pc = "running"
    /\ LET id == Head(runner.queue) IN
          /\ \A row \in migrationsTable : row.id # id
          /\ schema' = schema \cup {id}
          /\ migrationsTable' =
                 migrationsTable \cup {[id |-> id, applied_at |-> [time |-> migClock]]}
          /\ migClock' = migClock + 1
          /\ runner' = Advance(id)
    /\ UNCHANGED <<runs, migFrame>>

\* applyMigration throws: the transaction is rolled back and the run ends.
applyMigrationFails ==
    /\ runner.direction = "up" /\ runner.pc = "running"
    /\ RolledBack
    /\ runner' = Abort
    /\ UNCHANGED <<runs, migFrame>>

\* migrate down N: main, ensureMigrationsTable and migrateDown up to its loop.
migrateDown(rollbackCount) ==
    /\ runner.pc \in {"idle", "done"} /\ runs < MaxRuns
    /\ LET applied == OrderByAppliedAtDesc(migrationsTable)
           toRollback == Slice(applied, rollbackCount)
       IN  IF rollbackCount < 1
           THEN runner' = [IdleRunner EXCEPT
                             !.direction = "down", !.pc = "done",
                             !.failed = TRUE]
           ELSE runner' = [IdleRunner EXCEPT
                             !.direction = "down", !.count = rollbackCount,
                             !.applied = applied, !.queue = toRollback,
                             !.pc = IF applied = <<>> THEN "done"
                                    ELSE "running"]
    /\ runs' = runs + 1
    /\ UNCHANGED <<migrationsTable, schema, migClock, migFrame>>

\* rollbackMigration commits: migration.down and the DELETE FROM migrations.
rollbackMigration ==
    /\ runner.direction = "down" /\ runner.pc = "running"
    /\ LET id == Head(runner.queue) IN
          /\ schema' = schema \ {id}
          /\ migrationsTable' = {row \in migrationsTable : row.id # id}
          /\ migClock' = migClock + 1
          /\ runner' = Advance(id)
    /\ UNCHANGED <<runs, migFrame>>

\* rollbackMigration throws: the transaction is rolled back and the run ends.
rollbackMigrationFails ==
    /\ runner.direction = "down" /\ runner.pc = "running"
    /\ RolledBack
    /\ runner' = Abort
    /\ UNCHANGED <<runs, migFrame>>

NextMigrate ==
    \/ migrateUp
    \/ applyMigration
    \/ applyMigrationFails
    \/ \E rollbackCount \in RollbackCounts : migrateDown(rollbackCount)
    \/ rollbackMigration
    \/ rollbackMigrationFails

SpecMigrate == Init /\ [][NextMigrate]_vars

(* ============================ the App component ========================= *)
(* App.tsx keeps the rendered list in `todos` and marks the ids that have   *)
(* an optimistic operation syncing in pendingTodoIds.  Each handler runs up  *)
(* to its await in one step; the request then resolves or rejects in a      *)
(* later step, which runs the rest of the handler.  The server is any       *)
(* server: a list it returns holds any todos of the account, and a todo it  *)
(* creates gets an id it has never named before.                            *)

\* Number of todo ids the server can name in one behaviour.
MaxAppTodos == 2
\* Number of requests the App sends in one behaviour.
MaxAppCalls == 3

ServerTodoIds == 1..MaxAppTodos
ToggleStatuses == {"pending", "completed"}

\* A Todo, as far as the list handling reads it.
AppTodo(id, st) == [id |-> id, status |-> st]

\* data.items of fetchTodos: rows of one account, each id once.
TodoLists ==
    {q \in UNION {[1..k -> {AppTodo(i, st) : i \in ServerTodoIds,
                                             st \in ToggleStatuses}] :
                     k \in 0..MaxAppTodos} :
        \A a, b \in DOMAIN q : a < b => q[a].id < q[b].id}

\* `optimistic-${Date.now()}` of the n-th request: the clock has advanced
\* between two submissions of the form, so each call gets an id of its own,
\* and none is a server id.
OptimisticId(n) == 0 - n

\* The id gen_random_uuid() gives the row of a POST /todos: a new one.
FreshId == CHOOSE i \in ServerTodoIds \ seenIds :
               \A j \in ServerTodoIds \ seenIds : i <= j

\* addPendingId and removePendingId, as functions of the previous value.
addPendingId(ids, id) ==
    IF \E i \in DOMAIN ids : ids[i] = id THEN ids ELSE Append(ids, id)

\* Variant: removePendingId leaves the list as it is.
removePendingIdNever(ids, id) == ids

removePendingId(ids, id) == SelectSeq(ids, LAMBDA pendingId : pendingId # id)

\* prev.map((item) => (item.id === id ? replacement : item))
MapTodo(prev, id, replacement) ==
    [i \in DOMAIN prev |-> IF prev[i].id = id THEN replacement ELSE prev[i]]

\* prev.map((item) => (item.id === id ? {...item, status} : item))
MapStatus(prev, id, st) ==
    [i \in DOMAIN prev |->
        IF prev[i].id = id THEN [prev[i] EXCEPT !.status = st] ELSE prev[i]]

\* prev.filter((item) => item.id !== id)
FilterTodo(prev, id) == SelectSeq(prev, LAMBDA item : item.id # id)

\* todos.findIndex((item) => item.id === id), counted from 1; 0 when absent.
FindIndex(list, id) ==
    IF \E i \in DOMAIN list : list[i].id = id
    THEN CHOOSE i \in DOMAIN list :
             /\ list[i].id = id
             /\ \A j \in DOMAIN list : list[j].id = id => i <= j
    ELSE 0

\* next.splice(previousIndex < 0 ? next.length : previousIndex, 0, item)
Splice(prev, previousIndex, item) ==
    LET at == IF previousIndex = 0 \/ previousIndex - 1 > Len(prev)
              THEN Len(prev) ELSE previousIndex - 1
    IN SubSeq(prev, 1, at) \o <<item>> \o SubSeq(prev, at + 1, Len(prev))

\* A request of the App and what its handler keeps for the continuation.
AppReq(kind, id, item, previousIndex, st) ==
    [kind |-> kind, pc |-> "pending", id |-> id, item |-> item,
     previousIndex |-> previousIndex, status |-> st]

Awaiting(n, kind) ==
    /\ n \in DOMAIN appReqs
    /\ appReqs[n].kind = kind
    /\ appReqs[n].pc = "pending"

Settle(n, outcome) == appReqs' = [appReqs EXCEPT ![n].pc = outcome]

\* The App can send one more request.
CanSend == Len(appReqs) < MaxAppCalls

\* The todo view is rendered: a token is held.
SignedIn == accessToken # NULL

\* TodoItem of item is rendered and its controls are enabled.
Enabled(item) ==
    /\ SignedIn
    /\ \E i \in DOMAIN appTodos : appTodos[i] = item
    /\ \A i \in DOMAIN pendingTodoIds : pendingTodoIds[i] # item.id

ErrorMessage(text) == [message |-> text]

\* What the App leaves alone.
appFrame == <<server, refreshPromiseRef, promises, fetches, refreshCalls, api,
              todoStore, migrator>>

\* loadTodos() with a token held, up to the await of fetchTodos.
loadTodos ==
    /\ CanSend
    /\ loading' = TRUE
    /\ error' = NULL
    /\ appReqs' = Append(appReqs, AppReq("fetchTodos", NULL, NULL, 0, NULL))
    /\ UNCHANGED <<appTodos, pendingTodoIds, seenIds>>

\* LoginForm calls onLogin={login}; the token changes and the effect on
\* [token, loadTodos] runs loadTodos().
onLogin ==
    /\ ~SignedIn
    /\ \E authResponse \in AuthResponses : login(authResponse)
    /\ loadTodos
    /\ UNCHANGED appFrame

\* The Sign Out button: logout().  The App stays mounted and keeps its state.
SignOut ==
    /\ SignedIn
    /\ logout
    /\ UNCHANGED <<app, appFrame>>

\* The Retry button of the error alert.
Retry ==
    /\ SignedIn /\ error # NULL
    /\ loadTodos
    /\ UNCHANGED <<accessToken, currentUser, localStorage, appFrame>>

\* fetchTodos resolves: setTodos(data.items), then the finally block.
fetchTodosResolves(n, items) ==
    /\ Awaiting(n, "fetchTodos")
    /\ appTodos' = items
    /\ loading' = FALSE
    /\ seenIds' = seenIds \cup {items[i].id : i \in DOMAIN items}
    /\ Settle(n, "resolved")
    /\ UNCHANGED <<error, pendingTodoIds>>
    /\ UNCHANGED <<accessToken, currentUser, localStorage, appFrame>>

\* fetchTodos rejects: the catch block, then the finally block.
fetchTodosRejects(n) ==
    /\ Awaiting(n, "fetchTodos")
    /\ error' = ErrorMessage("Failed to load todos")
    /\ loading' = FALSE
    /\ Settle(n, "rejected")
    /\ UNCHANGED <<appTodos, pendingTodoIds, seenIds>>
    /\ UNCHANGED <<accessToken, currentUser, localStorage, appFrame>>

\* handleCreateTodo(input) up to the await of createTodo.
handleCreateTodo ==
    /\ SignedIn /\ CanSend
    /\ LET optimisticId == OptimisticId(Len(appReqs) + 1)
           optimisticTodo == AppTodo(optimisticId, "pending")
       IN /\ pendingTodoIds' = addPendingId(pendingTodoIds, optimisticId)
          /\ appTodos' = <<optimisticTodo>> \o appTodos
          /\ appReqs' = Append(appReqs,
                 AppReq("createTodo", optimisticId, optimisticTodo, 0, NULL))
    /\ UNCHANGED <<loading, error, seenIds>>
    /\ UNCHANGED <<accessToken, currentUser, localStorage, appFrame>>

\* createTodo resolves: the optimistic record becomes the created one.
createTodoResolves(n) ==
    /\ Awaiting(n, "createTodo")
    /\ ServerTodoIds \ seenIds # {}
    /\ LET created == AppTodo(FreshId, "pending") IN
          /\ appTodos' = MapTodo(appTodos, appReqs[n].id, created)
          /\ seenIds' = seenIds \cup {created.id}
    /\ pendingTodoIds' = removePendingId(pendingTodoIds, appReqs[n].id)
    /\ Settle(n, "resolved")
    /\ UNCHANGED <<loading, error>>
    /\ UNCHANGED <<accessToken, currentUser, localStorage, appFrame>>

\* createTodo rejects: the optimistic record is removed.
createTodoRejects(n) ==
    /\ Awaiting(n, "createTodo")
    /\ appTodos' = FilterTodo(appTodos, appReqs[n].id)
    /\ error' = ErrorMessage("Failed to create todo")
    /\ pendingTodoIds' = removePendingId(pendingTodoIds, appReqs[n].id)
    /\ Settle(n, "rejected")
    /\ UNCHANGED <<loading, seenIds>>
    /\ UNCHANGED <<accessToken, currentUser, localStorage, appFrame>>

\* handleStatusChange(todo, status) up to the await of updateTodo.  TodoItem
\* calls it with the item it renders and the opposite of its status.
handleStatusChange(item, st) ==
    /\ Enabled(item) /\ CanSend
    /\ st = IF item.status = "completed" THEN "pending" ELSE "completed"
    /\ pendingTodoIds' = addPendingId(pendingTodoIds, item.id)
    /\ appTodos' = MapStatus(appTodos, item.id, st)
    /\ appReqs' = Append(appReqs, AppReq("updateTodo", item.id, item, 0, st))
    /\ UNCHANGED <<loading, error, seenIds>>
    /\ UNCHANGED <<accessToken, currentUser, localStorage, appFrame>>

\* updateTodo resolves with the updated row.
updateTodoResolves(n) ==
    /\ Awaiting(n, "updateTodo")
    /\ LET updated == AppTodo(appReqs[n].id, appReqs[n].status) IN
          appTodos' = MapTodo(appTodos, appReqs[n].id, updated)
    /\ pendingTodoIds' = removePendingId(pendingTodoIds, appReqs[n].id)
    /\ Settle(n, "resolved")
    /\ UNCHANGED <<loading, error, seenIds>>
    /\ UNCHANGED <<accessToken, currentUser, localStorage, appFrame>>

\* updateTodo rejects: the previous item is put back.
updateTodoRejects(n) ==
    /\ Awaiting(n, "updateTodo")
    /\ appTodos' = MapTodo(appTodos, appReqs[n].id, appReqs[n].item)
    /\ error' = ErrorMessage("Failed to update todo")
    /\ pendingTodoIds' = removePendingId(pendingTodoIds, appReqs[n].id)
    /\ Settle(n, "rejected")
    /\ UNCHANGED <<loading, seenIds>>
    /\ UNCHANGED <<accessToken, currentUser, localStorage, appFrame>>

\* handleDeleteTodo(todo), confirmed, up to the await of deleteTodo.
handleDeleteTodo(item) ==
    /\ Enabled(item) /\ CanSend
    /\ pendingTodoIds' = addPendingId(pendingTodoIds, item.id)
    /\ appTodos' = FilterTodo(appTodos, item.id)
    /\ appReqs' = Append(appReqs,
           AppReq("deleteTodo", item.id, item, FindIndex(appTodos, item.id),
                  NULL))
    /\ UNCHANGED <<loading, error, seenIds>>
    /\ UNCHANGED <<accessToken, currentUser, localStorage, appFrame>>

\* deleteTodo resolves: only the finally block is left.
deleteTodoResolves(n) ==
    /\ Awaiting(n, "deleteTodo")
    /\ pendingTodoIds' = removePendingId(pendingTodoIds, appReqs[n].id)
    /\ Settle(n, "resolved")
    /\ UNCHANGED <<appTodos, loading, error, seenIds>>
    /\ UNCHANGED <<accessToken, currentUser, localStorage, appFrame>>

\* deleteTodo rejects: the item is spliced in at its previous index.
deleteTodoRejects(n) ==
    /\ Awaiting(n, "deleteTodo")
    /\ appTodos' = Splice(appTodos, appReqs[n].previousIndex, appReqs[n].item)
    /\ error' = ErrorMessage("Failed to delete todo")
    /\ pendingTodoIds' = removePendingId(pendingTodoIds, appReqs[n].id)
    /\ Settle(n, "rejected")
    /\ UNCHANGED <<loading, seenIds>>
    /\ UNCHANGED <<accessToken, currentUser, localStorage, appFrame>>

\* Some request of the App settles.
AppSettles ==
    \E n \in 1..MaxAppCalls :
        \/ \E items \in TodoLists : fetchTodosResolves(n, items)
        \/ fetchTodosRejects(n)
        \/ createTodoResolves(n)
        \/ createTodoRejects(n)
        \/ updateTodoResolves(n)
        \/ updateTodoRejects(n)
        \/ deleteTodoResolves(n)
        \/ deleteTodoRejects(n)

NextApp ==
    \/ onLogin
    \/ SignOut
    \/ Retry
    \/ handleCreateTodo
    \/ \E i \in 1..(MaxAppTodos + MaxAppCalls), st \in ToggleStatuses :
           i \in DOMAIN appTodos /\ handleStatusChange(appTodos[i], st)
    \/ \E i \in 1..(MaxAppTodos + MaxAppCalls) :
           i \in DOMAIN appTodos /\ handleDeleteTodo(appTodos[i])
    \/ AppSettles

SpecApp == Init /\ [][NextApp]_vars

\* Every request settles: the transport ends each fetch with a response or
\* an error.
SpecAppFair == SpecApp /\ WF_vars(AppSettles)

(* ======================= properties of the model ======================= *)
\* Slot r holds the reply of a finished request of handler op.
Replied(r, op) == reqs[r].op = op /\ reqs[r].pc = "done"

\* Slot r holds the reply of a finished request that passed validation.
RepliedValid(r, op) == Replied(r, op) /\ reqs[r].res.status # 400

\* /refresh would accept raw token t if it were evaluated in this state.
Accepted(t) == ~SessionRejected(SelectSessionByHash(hashRefreshToken(t)), NewDate)

\* C1: a /refresh that starts after /logout has replied 204 for the same raw
\* token never gets as far as signing an access token and replies 401
\* INVALID_TOKEN without data, whatever else happened in between.
C1_RevocationEffective ==
    \A r \in Requests :
        (reqs[r].op = "refresh" /\ reqs[r].after) =>
            /\ reqs[r].pc # "respond"
            /\ reqs[r].pc = "done" =>
                 /\ reqs[r].res.status = 401
                 /\ reqs[r].res.code = "INVALID_TOKEN"
                 /\ reqs[r].res.data = NULL

\* A refresh that started after a successful logout of its token has been
\* answered, with another session issued in between.
C1_Witness ==
    \E r \in Requests :
        /\ Replied(r, "refresh") /\ reqs[r].after
        /\ reqs[r].res.status = 401
        /\ \E s \in refresh_tokens : s.revoked_at = NULL

\* C2: a /refresh whose row, as read, is unrevoked and expires after the now
\* of the request, and whose owner exists, replies 200 with an access token;
\* and the row behind a token that /register or /login has just returned is
\* not expired, so that token is refreshable as long as it is not revoked.
C2_ActiveTokenRefreshes ==
    /\ \A r \in Requests :
         (/\ RepliedValid(r, "refresh")
          /\ reqs[r].session # NULL
          /\ reqs[r].session.revoked_at = NULL
          /\ reqs[r].session.expires_at.time > reqs[r].now.time
          /\ \E u \in users : u.id = reqs[r].session.user_id)
         => /\ reqs[r].res.status = 200
            /\ reqs[r].res.data # NULL
            /\ reqs[r].res.data.token.sub = reqs[r].session.user_id
    /\ \A r \in Requests :
         (/\ Replied(r, "register") \/ Replied(r, "login")
          /\ reqs[r].res.status \in {200, 201}
          /\ reqs[r].res.data.token.iat = clock)
         => LET s == SelectSessionByHash(hashRefreshToken(reqs[r].res.data.refreshToken))
            IN  /\ s # NULL
                /\ s.revoked_at = NULL => Accepted(reqs[r].res.data.refreshToken)

\* The token of a registration has been refreshed twice, both with 200.
C2_Witness ==
    \E r1, r2 \in Requests :
        /\ r1 # r2
        /\ Replied(r1, "refresh") /\ Replied(r2, "refresh")
        /\ reqs[r1].res.status = 200 /\ reqs[r2].res.status = 200
        /\ reqs[r1].body = reqs[r2].body

\* C3: /refresh replies 200 only for a row that expires strictly after the
\* now of the request; a row with expires_at <= now, revoked or not, gets 401
\* INVALID_TOKEN.
C3_ExpiredNeverRefreshes ==
    \A r \in Requests :
        (RepliedValid(r, "refresh") /\ reqs[r].session # NULL) =>
            /\ reqs[r].res.status = 200 =>
                 reqs[r].session.expires_at.time > reqs[r].now.time
            /\ reqs[r].session.expires_at.time <= reqs[r].now.time =>
                 /\ reqs[r].res.status = 401
                 /\ reqs[r].res.code = "INVALID_TOKEN"
                 /\ reqs[r].res.data = NULL

\* An unrevoked token was refreshed at exactly its expiry instant and refused.
C3_Witness ==
    \E r \in Requests :
        /\ RepliedValid(r, "refresh") /\ reqs[r].session # NULL
        /\ reqs[r].session.revoked_at = NULL
        /\ reqs[r].session.expires_at.time = reqs[r].now.time
        /\ reqs[r].res.status = 401

\* C4: no two user rows have e-mails that are equal ignoring case.
C4_EmailsUniqueIgnoringCase ==
    \A u1, u2 \in users :
        ToLowerCase(u1.email) = ToLowerCase(u2.email) => u1 = u2

\* Two registrations of one address in different case both passed the
\* existence check before either inserted, and both have been answered.
C4_Witness ==
    \E r1, r2 \in Requests :
        /\ RepliedValid(r1, "register") /\ RepliedValid(r2, "register")
        /\ reqs[r1].body.email # reqs[r2].body.email
        /\ ToLowerCase(reqs[r1].body.email) = ToLowerCase(reqs[r2].body.email)
        /\ reqs[r1].existing = NULL /\ reqs[r2].existing = NULL
        /\ Cardinality({u \in users : u.email = ToLowerCase(reqs[r1].body.email)}) = 1

\* C5: when two registrations of one e-mail address (ignoring case) with
\* valid input have both been answered and one of them, having found the
\* address unregistered, replied 201, the other one replied 409 EMAIL_EXISTS:
\* one winner, and the loser observes the conflict.
C5_RegisterRaceLoserGets409 ==
    \A r1, r2 \in Requests :
        (/\ r1 # r2
         /\ RepliedValid(r1, "register") /\ RepliedValid(r2, "register")
         /\ ToLowerCase(reqs[r1].body.email) = ToLowerCase(reqs[r2].body.email)
         /\ reqs[r1].existing = NULL
         /\ reqs[r1].res.status = 201)
        => /\ reqs[r2].res.status = 409
           /\ reqs[r2].res.code = "EMAIL_EXISTS"

\* Slot r takes the step in which /login replies 200.
LoginSucceeds(r) ==
    /\ reqs[r].op = "login" /\ reqs[r].pc = "verify"
    /\ reqs'[r].pc = "done" /\ reqs'[r].res.status = 200

\* C6: the step in which /login replies 200 adds exactly one row to
\* refresh_tokens, owned by the user and stored under the hash of the token
\* returned, a hash no row had before; it changes and removes no row, so
\* every token /refresh accepted before is still accepted and the new one is
\* accepted too, and the token differs from that of every other login reply.
C6_LoginIsAdditive ==
    [][\A r \in Requests : LoginSucceeds(r) =>
          LET refreshToken == reqs'[r].res.data.refreshToken
              hash == hashRefreshToken(refreshToken)
              added == refresh_tokens' \ refresh_tokens
          IN  /\ ~(\E s \in refresh_tokens : s.token_hash = hash)
              /\ refresh_tokens \subseteq refresh_tokens'
              /\ Cardinality(added) = 1
              /\ \A s \in added : /\ s.token_hash = hash
                                  /\ s.user_id = reqs[r].user.id
                                  /\ s.revoked_at = NULL
              /\ users' = users
              /\ \E t \in Tokens : t = refreshToken /\ Accepted(t)'
              /\ \A t \in Tokens : Accepted(t) => Accepted(t)'
              /\ \A r2 \in Requests \ {r} :
                    (Replied(r2, "login") /\ reqs[r2].res.status = 200) =>
                        reqs[r2].res.data.refreshToken # refreshToken
      ]_vars

\* Two logins of one user have both replied 200 and /refresh accepts both
\* of their tokens.
C6_Witness ==
    \E r1, r2 \in Requests :
        /\ r1 # r2
        /\ Replied(r1, "login") /\ Replied(r2, "login")
        /\ reqs[r1].res.status = 200 /\ reqs[r2].res.status = 200
        /\ reqs[r1].res.data.user.id = reqs[r2].res.data.user.id
        /\ reqs[r1].res.data.refreshToken # reqs[r2].res.data.refreshToken
        /\ Accepted(reqs[r1].res.data.refreshToken)
        /\ Accepted(reqs[r2].res.data.refreshToken)

\* Slot r takes the step in which /logout replies 204.
LogoutSucceeds(r) ==
    /\ reqs[r].op = "logout" /\ reqs[r].pc = "update"
    /\ reqs'[r].pc = "done" /\ reqs'[r].res.status = 204

\* C7: the step in which /logout replies 204 sets revoked_at on the row
\* stored under the hash of the token presented and on no other row, adds
\* and removes no row and leaves the users table alone, so every other token
\* /refresh accepted before is still accepted.
C7_LogoutRevokesOneSession ==
    [][\A r \in Requests : LogoutSucceeds(r) =>
          LET refreshToken == reqs[r].body.refreshToken
              hash == hashRefreshToken(refreshToken)
          IN  /\ users' = users
              /\ Cardinality(refresh_tokens') = Cardinality(refresh_tokens)
              /\ \A s \in refresh_tokens :
                    IF s.token_hash = hash
                    THEN \E s2 \in refresh_tokens' :
                            /\ s2.revoked_at # NULL
                            /\ s2 = [s EXCEPT !.revoked_at = s2.revoked_at]
                    ELSE s \in refresh_tokens'
              /\ \A t \in Tokens \ {refreshToken} : Accepted(t) => Accepted(t)'
      ]_vars

\* A logout has replied 204 and another session of the same user is still
\* unrevoked and accepted by /refresh.
C7_Witness ==
    \E r \in Requests, s1, s2 \in refresh_tokens, t \in Tokens :
        /\ Replied(r, "logout") /\ reqs[r].res.status = 204
        /\ s1.token_hash = hashRefreshToken(reqs[r].body.refreshToken)
        /\ s1.revoked_at # NULL
        /\ s2 # s1 /\ s2.user_id = s1.user_id /\ s2.revoked_at = NULL
        /\ s2.token_hash = hashRefreshToken(t) /\ Accepted(t)

\* Why a finished login request failed, from what the handler read.
LoginFailureCause(r) ==
    IF reqs[r].user = NULL THEN "email not registered"
    ELSE IF ~BcryptCompare(reqs[r].body.password, reqs[r].user.password_hash)
    THEN "wrong password"
    ELSE "none"

\* C8: a login refused for an unregistered e-mail and a login refused for a
\* wrong password get the same status, code and message (401,
\* INVALID_CREDENTIALS), and no step of a login that does not reply 200
\* changes the users or refresh_tokens table.
C8_LoginFailuresIndistinguishable ==
    [][/\ \A r1, r2 \in Requests :
            (/\ RepliedValid(r1, "login")' /\ RepliedValid(r2, "login")'
             /\ LoginFailureCause(r1)' = "email not registered"
             /\ LoginFailureCause(r2)' = "wrong password")
            => /\ reqs'[r1].res = reqs'[r2].res
               /\ reqs'[r1].res.status = 401
               /\ reqs'[r1].res.code = "INVALID_CREDENTIALS"
       /\ \A r \in Requests :
            (/\ reqs'[r] # reqs[r]
             /\ reqs'[r].op = "login"
             /\ ~(reqs'[r].pc = "done" /\ reqs'[r].res.status = 200))
            => /\ users' = users
               /\ refresh_tokens' = refresh_tokens
      ]_vars

\* Both failure causes have been answered, one in each slot.
C8_Witness ==
    \E r1, r2 \in Requests :
        /\ RepliedValid(r1, "login") /\ RepliedValid(r2, "login")
        /\ LoginFailureCause(r1) = "email not registered"
        /\ LoginFailureCause(r2) = "wrong password"
        /\ reqs[r1].res.status = 401 /\ reqs[r2].res.status = 401

\* C9: no step of a /refresh request changes the refresh_tokens table, and
\* its 200 reply carries the raw refresh token that was presented.
C9_RefreshDoesNotRotate ==
    [][\A r \in Requests :
          (reqs'[r] # reqs[r] /\ reqs'[r].op = "refresh") =>
              /\ refresh_tokens' = refresh_tokens
              /\ users' = users
              /\ (reqs'[r].pc = "done" /\ reqs'[r].res.status = 200) =>
                    reqs'[r].res.data.refreshToken = reqs'[r].body.refreshToken
      ]_vars

\* A refresh has replied 200 and the row it read is still stored unchanged.
C9_Witness ==
    \E r \in Requests :
        /\ Replied(r, "refresh") /\ reqs[r].res.status = 200
        /\ reqs[r].res.data.refreshToken = reqs[r].body.refreshToken
        /\ reqs[r].session \in refresh_tokens

\* C10: a /logout that starts after /logout has replied 204 for the same raw
\* token never gets as far as the UPDATE and replies 401 INVALID_TOKEN.
C10_SecondLogoutFails ==
    \A r \in Requests :
        (reqs[r].op = "logout" /\ reqs[r].after) =>
            /\ reqs[r].pc # "update"
            /\ reqs[r].pc = "done" =>
                 /\ reqs[r].res.status = 401
                 /\ reqs[r].res.code = "INVALID_TOKEN"

\* Two logouts of one token have been answered, the first with 204 and the
\* second, started after it, with 401, and the row keeps the first
\* revocation time.
C10_Witness ==
    \E r1, r2 \in Requests, s \in refresh_tokens :
        /\ r1 # r2
        /\ Replied(r1, "logout") /\ reqs[r1].res.status = 204
        /\ Replied(r2, "logout") /\ reqs[r2].after /\ reqs[r2].res.status = 401
        /\ reqs[r1].body = reqs[r2].body
        /\ s.token_hash = hashRefreshToken(reqs[r1].body.refreshToken)
        /\ s.revoked_at # NULL

\* C11: of the /logout requests answered for one raw refresh token, at most
\* one is answered 204; every other one is answered 401 INVALID_TOKEN.
C11_OneLogoutWins ==
    \A r1, r2 \in Requests :
        (/\ r1 # r2
         /\ RepliedValid(r1, "logout") /\ RepliedValid(r2, "logout")
         /\ reqs[r1].body = reqs[r2].body
         /\ reqs[r1].res.status = 204) =>
            /\ reqs[r2].res.status = 401
            /\ reqs[r2].res.code = "INVALID_TOKEN"

\* C12: a /logout request that arrives for a token whose record is unrevoked
\* but already expired (expires_at <= now) is answered 401 INVALID_TOKEN at
\* once and never reaches the UPDATE, so revoked_at stays null.
C12_LogoutNeedsActiveRecord ==
    [][\A r \in Requests :
          (/\ reqs[r].pc \in {"idle", "done"}
           /\ reqs'[r] # reqs[r]
           /\ reqs'[r].op = "logout"
           /\ RefreshTokenSchemaOk(reqs'[r].body)
           /\ LET session == SelectSessionByHash(
                                 hashRefreshToken(reqs'[r].body.refreshToken)) IN
                 /\ session # NULL
                 /\ session.revoked_at = NULL
                 /\ session.expires_at.time <= NewDate.time) =>
              /\ reqs'[r].pc = "done"
              /\ reqs'[r].res.status = 401
              /\ reqs'[r].res.code = "INVALID_TOKEN"
      ]_vars

(* ------------------------ properties of the client --------------------- *)
\* The step is a refreshAccessToken() call.
IsRefreshCall == Len(refreshCalls') = Len(refreshCalls) + 1

\* What the refreshAccessToken() call of this step returned.
ThisRefreshCall == refreshCalls'[Len(refreshCalls')]

\* Some refresh request has been sent and has settled.
SomeRefreshSettled ==
    \E i \in DOMAIN refreshCalls :
        /\ refreshCalls[i].sent
        /\ promises[refreshCalls[i].promise.id].state = "fulfilled"

\* C13: at most one POST /auth/refresh is outstanding at any time, and a
\* refreshAccessToken() call made while one is outstanding sends nothing and
\* returns the promise of the outstanding request, hence its value.
C13_SingleFlight ==
    /\ [](Cardinality(fetches) <= 1)
    /\ [][(IsRefreshCall /\ fetches # {}) =>
             /\ fetches' = fetches
             /\ ~ThisRefreshCall.sent
             /\ \E f \in fetches : ThisRefreshCall.promise = f.promise
         ]_vars

\* Two calls shared one request: the first sent it, the second was made while
\* it was outstanding, and both hold the promise that was fulfilled with the
\* new access token.
C13_Witness ==
    /\ Len(refreshCalls) >= 2
    /\ refreshCalls[1].sent /\ ~refreshCalls[2].sent
    /\ refreshCalls[1].promise = refreshCalls[2].promise
    /\ Len(promises) = 1
    /\ promises[1].state = "fulfilled" /\ promises[1].value # NULL
    /\ fetches = {}

\* refreshPromiseRef.current is set exactly while a refresh request is
\* outstanding, and then names the pending promise of that request.
HandleTracksFlight ==
    IF fetches = {}
    THEN refreshPromiseRef = NULL
    ELSE \E f \in fetches :
            /\ fetches = {f}
            /\ refreshPromiseRef = f.promise
            /\ promises[f.promise.id].state = "pending"

\* C14 as stated: the handle is set exactly while a refresh request is
\* outstanding, and the first refreshAccessToken() call after a refresh has
\* settled always sends a fresh request.
C14_FreshRequestAfterSettle ==
    /\ []HandleTracksFlight
    /\ [][(IsRefreshCall /\ fetches = {} /\ SomeRefreshSettled) =>
             ThisRefreshCall.sent
         ]_vars

\* C14, amended: the handle is set exactly while a refresh request is
\* outstanding; a refreshAccessToken() call made when none is outstanding is
\* never joined to an earlier one: it gets a promise of its own, and it sends
\* a fresh request exactly if a refresh token is stored.
C14_HandleSetExactlyInFlight ==
    /\ []HandleTracksFlight
    /\ [][(IsRefreshCall /\ fetches = {}) =>
             /\ ThisRefreshCall.promise = NewPromise
             /\ ThisRefreshCall.sent = HasItem(REFRESH_TOKEN_KEY)
         ]_vars

\* A refresh has settled and the handle was cleared; the next call sent a
\* second request, which is outstanding and named by the handle.
C14_Witness ==
    /\ Len(refreshCalls) = 2
    /\ refreshCalls[1].sent /\ promises[1].state = "fulfilled"
    /\ refreshCalls[2].sent /\ refreshCalls[2].promise = [id |-> 2]
    /\ promises[2].state = "pending"
    /\ refreshPromiseRef = [id |-> 2]

\* The refresh request f settles in this step.
Settles(f) == f \in fetches /\ \A g \in fetches' : g.promise # f.promise

\* No session is held: no access token, no user, no stored refresh token.
Anonymous ==
    /\ accessToken = NULL
    /\ currentUser = NULL
    /\ ~HasItem(REFRESH_TOKEN_KEY)

\* C15: when a refresh request settles without a parsed 2xx body (the fetch
\* rejects, the response is not ok, or in any other way the call resolves to
\* null), the state right after that step holds no access token, no user and
\* no stored refresh token, and the promise of the call is fulfilled with
\* null.
C15_FailClosed ==
    [][\A f \in fetches :
          (Settles(f) /\ (f.pc = "fetch" \/ promises'[f.promise.id].value = NULL))
              => /\ Anonymous'
                 /\ promises'[f.promise.id] = Fulfilled(NULL)
      ]_vars

\* An API call made with an access token was answered 401, the refresh that
\* followed was sent and resolved to null, and the session is gone.
C15_Witness ==
    /\ Len(api) = 1 /\ api[1].pc = "done" /\ api[1].response # NULL
    /\ api[1].response.status = 401
    /\ Len(refreshCalls) = 1 /\ refreshCalls[1].sent
    /\ promises[1] = Fulfilled(NULL)
    /\ Anonymous

C17_RefreshOn401 ==
    [][\A i \in DOMAIN api :
          (/\ api[i].pc = "fetch"
           /\ api[i].sends = 1
           /\ api'[i].response # NULL
           /\ api'[i].response.status = 401) =>
              /\ IsRefreshCall
              /\ api'[i].pc # "done"
      ]_vars

(* ------------------- properties of the stored records ------------------ *)
\* C18: the step in which /register replies 201 inserts exactly one
\* refresh_tokens row, unrevoked, owned by the user of the reply and holding
\* the hash of the refresh token of the reply; that user is the one row of
\* users with the registered address, inserted by the same request in its
\* previous step; and that previous step inserts exactly that one users row.
C18_RegisterCreatesUserAndSession ==
    [][\A r \in Requests :
          (reqs'[r] # reqs[r] /\ reqs'[r].op = "register") =>
              /\ (reqs'[r].pc = "insert_token") =>
                    /\ refresh_tokens' = refresh_tokens
                    /\ \E u \in users' \ users :
                          /\ users' = users \cup {u}
                          /\ mapUser(u) = reqs'[r].user
              /\ (reqs'[r].pc = "done" /\ reqs'[r].res.status = 201) =>
                    LET data == reqs'[r].res.data IN
                    /\ reqs[r].pc = "insert_token" /\ reqs[r].user = data.user
                    /\ users' = users
                    /\ \E u \in users :
                          /\ mapUser(u) = data.user
                          /\ u.email = ToLowerCase(reqs'[r].body.email)
                          /\ \A v \in users : v.email = u.email => v = u
                    /\ \E s \in refresh_tokens' \ refresh_tokens :
                          /\ refresh_tokens' = refresh_tokens \cup {s}
                          /\ s.user_id = data.user.id
                          /\ s.token_hash = hashRefreshToken(data.refreshToken)
                          /\ s.revoked_at = NULL
      ]_vars

\* Two users have registered; the second got 201 and owns the one row that
\* holds the hash of the token returned to it.
C18_Witness ==
    \E r \in Requests, u \in users, s \in refresh_tokens :
        /\ Replied(r, "register") /\ reqs[r].res.status = 201
        /\ Cardinality(users) = 2
        /\ u.id = 2 /\ mapUser(u) = reqs[r].res.data.user
        /\ s.user_id = u.id
        /\ s.token_hash = hashRefreshToken(reqs[r].res.data.refreshToken)

\* The printed forms of the raw tokens and of their hashes.
RawTokenStrings == {ToString(t) : t \in Tokens}
TokenHashStrings == {ToString(hashRefreshToken(t)) : t \in Tokens}

\* C19: the token_hash of every refresh_tokens row is the hash of a raw token
\* and is no raw token; a row a /refresh or /logout request works on is one
\* whose token_hash is the hash of the token presented; and the token a 201
\* or 200 reply of /register or /login returns is stored as its hash.
C19_OnlyHashesStored ==
    /\ \A s \in refresh_tokens :
          /\ ToString(s.token_hash) \notin RawTokenStrings
          /\ ToString(s.token_hash) \in TokenHashStrings
    /\ \A r \in Requests :
          /\ (reqs[r].op \in {"refresh", "logout"} /\ reqs[r].session # NULL) =>
                reqs[r].session.token_hash =
                    hashRefreshToken(reqs[r].body.refreshToken)
          /\ ((Replied(r, "register") \/ Replied(r, "login"))
                 /\ reqs[r].res.status \in {200, 201}) =>
                \E s \in refresh_tokens :
                    s.token_hash = hashRefreshToken(reqs[r].res.data.refreshToken)

\* A login has returned a token, a /logout that presented it has found its
\* row by the hash, and the stored value is the hash.
C19_Witness ==
    \E r1, r2 \in Requests, s \in refresh_tokens :
        /\ Replied(r1, "login") /\ reqs[r1].res.status = 200
        /\ reqs[r2].op = "logout" /\ reqs[r2].pc = "update"
        /\ reqs[r2].body.refreshToken = reqs[r1].res.data.refreshToken
        /\ reqs[r2].session.id = s.id
        /\ s.token_hash = hashRefreshToken(reqs[r1].res.data.refreshToken)

\* C20: no step deletes a refresh_tokens row or changes its user_id,
\* token_hash or expires_at, and no step changes a revoked_at that is not
\* null.
C20_RecordsOnlyGetRevoked ==
    [][\A s \in refresh_tokens :
          \E t \in refresh_tokens' :
              /\ t.id = s.id
              /\ t.user_id = s.user_id
              /\ t.token_hash = s.token_hash
              /\ t.expires_at = s.expires_at
              /\ (s.revoked_at # NULL) => t.revoked_at = s.revoked_at
      ]_vars

(* -------------------- further properties of the server ----------------- *)
\* Why a finished /refresh request was refused, from what the handler read.
RefreshFailureCause(r) ==
    IF reqs[r].session = NULL THEN "unknown"
    ELSE IF reqs[r].session.revoked_at # NULL THEN "revoked"
    ELSE IF reqs[r].session.expires_at.time <= reqs[r].now.time THEN "expired"
    ELSE "none"

\* C21: every /refresh request that read no row, a revoked row or an expired
\* row is answered 401 INVALID_TOKEN "Invalid or expired refresh token"
\* without data, so two requests refused for different causes get equal
\* replies.
C21_RefreshFailuresIndistinguishable ==
    /\ \A r \in Requests :
          (RepliedValid(r, "refresh") /\ RefreshFailureCause(r) # "none") =>
              reqs[r].res = [status |-> 401, code |-> "INVALID_TOKEN",
                             message |-> "Invalid or expired refresh token",
                             data |-> NULL]
    /\ \A r1, r2 \in Requests :
          (/\ RepliedValid(r1, "refresh") /\ RepliedValid(r2, "refresh")
           /\ RefreshFailureCause(r1) # "none"
           /\ RefreshFailureCause(r2) # "none") =>
              reqs[r1].res = reqs[r2].res

\* Two refreshes have been refused, one for a revoked row and one for an
\* expired row.
C21_Witness ==
    \E r1, r2 \in Requests :
        /\ RepliedValid(r1, "refresh") /\ RepliedValid(r2, "refresh")
        /\ RefreshFailureCause(r1) = "revoked"
        /\ RefreshFailureCause(r2) = "expired"
        /\ reqs[r1].res.status = 401 /\ reqs[r2].res.status = 401

\* C22: the access token and the user view of every 200 reply of /refresh
\* are those of the user whose id is the user_id of the row that holds the
\* hash of the presented token.
C22_RefreshBoundToOwner ==
    \A r \in Requests :
        (Replied(r, "refresh") /\ reqs[r].res.status = 200) =>
            \E s \in refresh_tokens, u \in users :
                /\ s.token_hash = hashRefreshToken(reqs[r].body.refreshToken)
                /\ u.id = s.user_id
                /\ reqs[r].res.data.token.sub = u.id
                /\ reqs[r].res.data.token.email = u.email
                /\ reqs[r].res.data.user = mapUser(u)

\* Two users exist and a refresh with the token of the second has returned
\* an access token for the second.
C22_Witness ==
    \E r \in Requests, s \in refresh_tokens :
        /\ Cardinality(users) = 2
        /\ Replied(r, "refresh") /\ reqs[r].res.status = 200
        /\ s.token_hash = hashRefreshToken(reqs[r].body.refreshToken)
        /\ s.user_id = 2
        /\ reqs[r].res.data.token.sub = 2

(* --------------------- properties of the todo routes ------------------- *)
\* C23: no step changes the user_id of a todo; a step of a request by user U
\* leaves every todo of another user in the table unchanged and adds or
\* rewrites only todos of U; a GET, PATCH or DELETE /todos/:id by U with a
\* valid id and body for a todo that exists and belongs to another user is
\* answered 404 NOT_FOUND; and the todos in a 200 or 201 reply to U all
\* have userId U.
C23_TodoOwnershipIsolation ==
    [][/\ \A t1 \in todos, t2 \in todos' :
             t1.id = t2.id => t1.user_id = t2.user_id
       /\ \A r \in Requests :
             (treqs'[r] # treqs[r]) =>
                LET req == treqs'[r] IN
                /\ \A t \in todos : t.user_id # req.userId => t \in todos'
                /\ \A t \in todos' \ todos : t.user_id = req.userId
                /\ (/\ req.pc = "done"
                    /\ req.op \in {"get", "update", "delete"}
                    /\ TodoIdSchemaOk(req.id)
                    /\ req.op = "update" =>
                          UpdateTodoSchemaOk(req.body) /\ DOMAIN req.body # {}
                    /\ \E t \in todos : t.id = req.id /\ t.user_id # req.userId)
                   => req.res = [status |-> 404, code |-> "NOT_FOUND",
                                 message |-> "Todo not found", data |-> NULL]
                /\ (req.pc = "done" /\ req.res.status \in {200, 201}) =>
                      /\ req.op = "list" =>
                            \A item \in req.res.data.items :
                                item.userId = req.userId
                      /\ req.op \in {"get", "create", "update"} =>
                            req.res.data.userId = req.userId
      ]_vars

\* User 2 has asked to update and to delete a todo of user 1; both requests
\* were answered 404 and the todo is still as it was created.
C23_Witness ==
    \E r1, r2 \in Requests, t \in todos :
        /\ r1 # r2
        /\ t.user_id = 1 /\ t.status = "pending" /\ t.title = "milk"
        /\ treqs[r1].op = "update" /\ treqs[r1].pc = "done"
        /\ treqs[r1].userId = 2 /\ treqs[r1].id = t.id
        /\ treqs[r1].body = [status |-> "completed"]
        /\ treqs[r1].res.status = 404
        /\ treqs[r2].op = "delete" /\ treqs[r2].pc = "done"
        /\ treqs[r2].userId = 2 /\ treqs[r2].id = t.id
        /\ treqs[r2].res.status = 404

(* ------------------ properties of the migration runner ----------------- *)
\* The ids recorded in table migrations.
RecordedIds == {row.id : row \in migrationsTable}

\* This step commits one migration of the run in the given direction.
Commits(direction) ==
    /\ runner.direction = direction /\ runner.pc = "running"
    /\ Len(runner'.log) = Len(runner.log) + 1

\* C24: the ids recorded in table migrations are always exactly those of the
\* migrations in effect, each in one row.  A step of migrate up applies a
\* migration that is not recorded and whose predecessors in the list all
\* are; a migrate up that ends without error leaves every migration
\* recorded, and one that starts with every migration recorded applies
\* nothing.  A step of migrate down N rolls back the most recently applied
\* migration still recorded, a run rolls back at most N, and a run that
\* ends without error has rolled back N or all that were applied.
C24_MigrationBookkeeping ==
    /\ [](/\ RecordedIds = schema
          /\ Cardinality(migrationsTable) = Cardinality(RecordedIds))
    /\ []((runner.direction = "up" /\ runner.pc = "done" /\ ~runner.failed)
             => RecordedIds = Range(Migrations))
    /\ []((runner.direction = "down" /\ runner.pc = "done" /\ ~runner.failed)
             => /\ runner.log = Slice(runner.applied, runner.count)
                /\ RecordedIds = Range(runner.applied) \ Range(runner.log))
    /\ [][/\ Commits("up") =>
                LET id == runner'.log[Len(runner'.log)] IN
                /\ id \notin RecordedIds
                /\ RecordedIds' = RecordedIds \cup {id}
                /\ \A i, j \in DOMAIN Migrations :
                      (Migrations[j] = id /\ i < j) =>
                          Migrations[i] \in RecordedIds
          /\ (/\ runs' = runs + 1
              /\ runner'.direction = "up"
              /\ RecordedIds = Range(Migrations)) =>
                /\ runner'.pc = "done" /\ runner'.log = <<>>
                /\ UNCHANGED <<migrationsTable, schema>>
          /\ Commits("down") =>
                LET id == runner'.log[Len(runner'.log)] IN
                /\ RecordedIds' = RecordedIds \ {id}
                /\ Len(runner'.log) <= runner.count
                /\ \E row \in migrationsTable :
                      /\ row.id = id
                      /\ \A other \in migrationsTable :
                            other.applied_at.time <= row.applied_at.time
         ]_vars

\* After a run that applied both migrations, a migrate down 2 rolled back
\* the second and then failed on the first, which is still recorded.
C24_Witness ==
    /\ runner.direction = "down" /\ runner.count = 2
    /\ runner.pc = "done" /\ runner.failed
    /\ runner.applied = <<"002_add_todo_indexes", "001_initial">>
    /\ runner.log = <<"002_add_todo_indexes">>
    /\ RecordedIds = {"001_initial"}
    /\ schema = {"001_initial"}

(* -------------------- further properties of the store ------------------ *)
\* C25: a /register request that was answered with a status other than 201
\* has left no users row of its own: the row it inserted, if it got that
\* far, is not in the table.
C25_FailedRegisterLeavesNoUser ==
    \A r \in Requests :
        (/\ Replied(r, "register")
         /\ reqs[r].res.status # 201
         /\ reqs[r].user # NULL) =>
            \A u \in users : u.id # reqs[r].user.id

\* C26: in the step in which /refresh signs the access token and replies
\* 200, the row that holds the hash of the presented token is not revoked.
C26_NoTokenSignedAfterRevocation ==
    [][\A r \in Requests :
          (/\ reqs[r].op = "refresh" /\ reqs[r].pc = "respond"
           /\ reqs'[r].pc = "done" /\ reqs'[r].res.status = 200) =>
              \A s \in refresh_tokens :
                  s.token_hash = hashRefreshToken(reqs[r].body.refreshToken)
                      => s.revoked_at = NULL
      ]_vars

(* -------------------- further properties of the client ----------------- *)
\* C27: a cleared session stays cleared until login() is called: no step
\* that settles a refresh request or makes a refreshAccessToken() call turns
\* a state without access token, user and stored refresh token into one
\* that holds any of them.
C27_LogoutIsFinal ==
    [][(Anonymous /\ ~Anonymous') =>
          (fetches' = fetches /\ refreshCalls' = refreshCalls)
      ]_vars

\* C28: the access token is held if and only if the user is held if and only
\* if a refresh token is stored, in every state the client reaches from the
\* anonymous one by login(response), logout() and refreshAccessToken() calls,
\* whether or not a refresh request is outstanding.
C28_SessionConsistency ==
    /\ (accessToken # NULL) <=> (currentUser # NULL)
    /\ (currentUser # NULL) <=> HasItem(REFRESH_TOKEN_KEY)

\* A refresh request has settled with a new access token, nothing is
\* outstanding, and all three parts of the session are held.
C28_Witness ==
    /\ fetches = {}
    /\ \E i \in DOMAIN refreshCalls :
          /\ refreshCalls[i].sent
          /\ promises[refreshCalls[i].promise.id].state = "fulfilled"
          /\ promises[refreshCalls[i].promise.id].value = accessToken
    /\ accessToken # NULL /\ currentUser # NULL /\ HasItem(REFRESH_TOKEN_KEY)

(* -------------------- properties of the App component ------------------ *)
\* C29: every todo id appears at most once in the rendered list, after any
\* interleaving of loadTodos, handleCreateTodo, handleStatusChange and
\* handleDeleteTodo with the settling of their requests.
C29_NoDuplicateTodoIds ==
    \A i, j \in DOMAIN appTodos :
        appTodos[i].id = appTodos[j].id => i = j

\* The ids a todo of the list can have.
AppTodoIds == ServerTodoIds \cup {OptimisticId(n) : n \in 1..MaxAppCalls}

\* id is marked as syncing.
IsPendingId(id) == \E i \in DOMAIN pendingTodoIds : pendingTodoIds[i] = id

\* A create, update or delete request for id has not settled.
Outstanding(id) ==
    \E n \in DOMAIN appReqs :
        /\ appReqs[n].kind # "fetchTodos"
        /\ appReqs[n].pc = "pending"
        /\ appReqs[n].id = id

\* C30: pendingTodoIds never holds an id twice; every id in it belongs to a
\* create, update or delete request that has not settled, so it is empty
\* when none is outstanding; the step in which such a request resolves or
\* rejects removes its id; and every id that is marked is released later.
C30_PendingIdsReleased ==
    /\ [](\A i, j \in DOMAIN pendingTodoIds :
             pendingTodoIds[i] = pendingTodoIds[j] => i = j)
    /\ [](\A id \in AppTodoIds : IsPendingId(id) => Outstanding(id))
    /\ [][\A n \in DOMAIN appReqs :
             (/\ appReqs[n].kind # "fetchTodos"
              /\ appReqs[n].pc = "pending"
              /\ appReqs'[n].pc # "pending") =>
                 \A i \in DOMAIN pendingTodoIds' :
                     pendingTodoIds'[i] # appReqs[n].id
         ]_vars
    /\ \A id \in AppTodoIds : IsPendingId(id) ~> ~IsPendingId(id)

\* A create has resolved and an update or delete has rejected; nothing is
\* outstanding and no id is marked any more.
C30_Witness ==
    /\ \E n \in DOMAIN appReqs :
          appReqs[n].kind = "createTodo" /\ appReqs[n].pc = "resolved"
    /\ \E n \in DOMAIN appReqs :
          /\ appReqs[n].kind \in {"updateTodo", "deleteTodo"}
          /\ appReqs[n].pc = "rejected"
    /\ \A n \in DOMAIN appReqs : appReqs[n].pc # "pending"
    /\ pendingTodoIds = <<>>
====
